---- MODULE Spec2Model ----
(***************************************************************************)
(* SeedGPT: the iteration controller (src/src/loop.ts: run, iterate) and   *)
(* the LLM gateway (src/src/llm/api.ts: callApi, recordGenerated).         *)
(*                                                                         *)
(* Spec     the controller: run() and the iterations it drives.  Every     *)
(*          awaited call is one action; each may complete or throw.        *)
(* SpecApi  the gateway: a sequence of callApi invocations.                *)
(***************************************************************************)
EXTENDS Integers, Sequences, FiniteSets, TLC

\* ------------------------------------------------------------------ bounds
MaxIterations == 2
MaxFixAttempts == 2
MaxCalls == 2
MaxPolls == 2
MaxItems == 2
MaxDocs == 3
MaxOps == 2
MaxFileLen == 3
MaxRuns == 2

VARIABLES
    \* run()
    runPc,          \* position of run()
    runMerged,      \* run's local `merged`
    caught,         \* the error bound in run's catch clause
    exitErr,        \* the error that leaves run() (NoErr on a normal return)
    dbConnected,    \* connectToDatabase has resolved
    runTrace,       \* the calls run() itself made, in order, with their results
    \* iterate()
    itPc,           \* position of iterate(): the call it is about to make
    iter,           \* number of iterate() invocations so far
    active,         \* iterate() invocations in progress
    merged, prNumber, outcome, plannerMessages, session, iterationPlan, branchName,
    result,         \* the last value awaitChecks resolved to
    pending,        \* the exception in flight inside iterate
    trace,          \* the calls of the current iteration, in order, with their results
    \* the world
    prState,        \* PR number -> "none" | "open" | "merged" | "closed"
    memories,       \* the documents inserted into the Memory collection since the
                    \* current iteration began, in insertion order
    reflected,      \* the calls of reflect since the current iteration began:
                    \* the outcome and the messages passed
    logs,           \* the IterationLog collection: the iteration each was written in
    \* callApi()
    apiPc,          \* position of callApi()
    apiCalls,       \* number of callApi() invocations so far
    batchConfig,    \* config.batch
    activeIterationId,
    params,         \* the request built by buildParams
    status,         \* processing_status last reported for the batch
    delay,          \* the delay of the next sleep
    slept,          \* the delays slept by this call, in order
    resultsRead,    \* the results of the batch have been requested
    entry,          \* the first entry the results yielded
    apiRet,         \* the message callApi returned
    apiErr,         \* the error callApi threw
    generated,      \* the Generated collection, in insertion order
    stamped,        \* iteration -> the values of activeIterationId that recordGenerated
                    \* put into the documents it built for the LLM calls of that
                    \* iteration
    \* agents/memory.ts
    store,          \* the Memory collection in creation order; _id is the position
    made,           \* _id -> the operation that created the document
    completedOnce,  \* the _ids whose ideaStatus has been set to completed
    memRet,         \* what the last memory operation returned or threw
    \* tools/git.ts: applyEdits
    files,          \* the workspace: path -> content (a sequence of characters) or Absent
    editPc,         \* position of applyEdits
    operations,     \* the argument of the call in progress
    opIndex,        \* the operation the loop is at
    errors,         \* applyEdits' local `errors`
    lastEdit,       \* the operation the loop attempted last: the file before it and
                    \* the error it pushed (NoError_ when it pushed none)
    editRet,        \* how the last call of applyEdits ended
    attempted,      \* the turns of the loop in the current call, in order: the
                    \* operation, its file before and after, the error pushed
    \* tools/github.ts: awaitPRChecks
    ciPc,           \* position of awaitPRChecks
    elapsed,        \* seconds since the call
    checkRuns,      \* the check runs the last poll returned
    noRunsYet,      \* every poll of this call returned zero check runs
    ciResult,       \* what the call returned
    \* llm/api.ts: buildParams
    bpPc,           \* position of buildParams
    bpPhase,        \* its `phase` argument
    bpTools,        \* the number of tools in its `tools` argument
    workingContext, \* what prepareAndBuildContext returned
    system,         \* the system blocks pushed so far
    built,          \* the request buildParams returned
    \* tools/handlers.ts: handleTool
    toolUse,        \* the tool_use block handled last
    toolOutcome,    \* how the operation under the handler ended
    toolResult,     \* the block the handler returned
    \* tools/git.ts: createBranch; tools/github.ts: findOpenAgentPRs
    brPc,           \* "idle" | "created" | "opened" | "threw"
    humanTitle,     \* the `name` argument of createBranch
    branchRef,      \* the branch name createBranch returned
    pulls,          \* the open pull requests of the repository
    agentPRs        \* what findOpenAgentPRs returned last

loopVars == <<runPc, runMerged, caught, exitErr, dbConnected, runTrace,
              itPc, iter, active, merged, prNumber, outcome, plannerMessages,
              session, iterationPlan, branchName, result, pending, trace,
              prState, memories, reflected, logs>>

apiVars == <<apiPc, apiCalls, batchConfig, activeIterationId, params, status, delay,
             slept, resultsRead, entry, apiRet, apiErr, generated>>

memVars == <<store, made, completedOnce, memRet>>

editVars == <<files, editPc, operations, opIndex, errors, lastEdit, editRet, attempted>>

checkVars == <<ciPc, elapsed, checkRuns, noRunsYet, ciResult>>

paramVars == <<bpPc, bpPhase, bpTools, workingContext, system, built>>

toolVars == <<toolUse, toolOutcome, toolResult>>

branchVars == <<brPc, humanTitle, branchRef, pulls, agentPRs>>

vars == <<loopVars, apiVars, stamped, memVars, editVars, checkVars, paramVars, toolVars,
          branchVars>>

\* what each specification leaves alone
outsideLoop == <<apiVars, memVars, editVars, checkVars, paramVars, toolVars, branchVars>>
outsideApi == <<loopVars, stamped, memVars, editVars, checkVars, paramVars, toolVars, branchVars>>
outsideMemory == <<loopVars, stamped, apiVars, editVars, checkVars, paramVars, toolVars, branchVars>>
outsideEdits == <<loopVars, stamped, apiVars, memVars, checkVars, paramVars, toolVars, branchVars>>
outsideParams == <<loopVars, stamped, apiVars, memVars, editVars, checkVars, toolVars, branchVars>>
outsideTools == <<loopVars, stamped, apiVars, memVars, checkVars, paramVars, branchVars>>
outsideBranches == <<loopVars, stamped, apiVars, memVars, editVars, checkVars, paramVars,
                    toolVars>>
outsideChecks == <<loopVars, stamped, apiVars, memVars, editVars, paramVars, toolVars, branchVars>>

\* ------------------------------------------------------------------ values
NoErr == [op |-> "none", kind |-> "none"]
NoPr == 0
NoBranch == "undefined"
NoPlan == [title |-> "undefined"]
NoSession == [attempts |-> -1, conversation |-> <<>>]
NoText == [kind |-> "undefined", pr |-> NoPr, len |-> 0, text |-> ""]
NoResult == [passed |-> FALSE, error |-> [text |-> "none", len |-> 0]]
NoError == [text |-> "undefined", len |-> 0]

Min(a, b) == IF a < b THEN a ELSE b

\* The texts awaitChecks can report with passed = false: a short one, one longer
\* than every truncation the controller applies, or none at all.
CiErrors == { [text |-> "Timed out", len |-> 9],
              [text |-> "job log", len |-> 20000],
              NoError }

\* The plans the planner can submit.
Plans == { [title |-> "Add greet"] }

\* String.prototype.slice(0, n) on a text of known length.
Slice(e, n) == [text |-> e.text, len |-> Min(e.len, n)]

\* result.error ?? 'CI checks failed with unknown error'
ErrorOf(r) == IF r.error = NoError
              THEN [text |-> "CI checks failed with unknown error", len |-> 35]
              ELSE r.error

\* The ways each awaited collaborator can reject.
FailKinds(op) ==
    CASE op \in {"plan", "createPatch", "fixPatch", "reflect"} -> {"LlmBatchFailed"}
      [] op = "storePastMemory" -> {"LlmBatchFailed", "StorageUnavailable"}
      [] op \in {"getRecentLog", "createBranch", "commitAndPush", "resetWorkspace",
                 "cloneRepo"} -> {"GitOperation"}
      [] op \in {"getContext", "writeIterationLog", "connectToDatabase",
                 "disconnectFromDatabase"} -> {"StorageUnavailable"}
      [] op \in {"openPR", "awaitChecks", "mergePR", "closePR", "getCoverage",
                 "cleanupStalePRs", "deleteRemoteBranch"} -> {"RemoteRateLimited"}
      [] OTHER -> {"Io"}

Errors(op) == { [op |-> op, kind |-> k] : k \in FailKinds(op) }

\* One entry of the call history of the current iteration.
Ev(op, res) == [op |-> op, res |-> res]
Called(op) == \E i \in 1..Len(trace) : trace[i].op = op
Calls(op) == Cardinality({ i \in 1..Len(trace) : trace[i].op = op })
Completed(op) == \E i \in 1..Len(trace) : trace[i].op = op /\ trace[i].res # "threw"
Range(q) == { q[i] : i \in 1..Len(q) }
Count(q, e) == Cardinality({ i \in 1..Len(q) : q[i] = e })
CountOp(q, op) == Cardinality({ i \in 1..Len(q) : q[i].op = op })

\* The outcome strings of iterate().
OutcomeMerged(pr) == [kind |-> "PR merged successfully.", pr |-> pr, len |-> 0, text |-> ""]
OutcomeNoEdits == [kind |-> "Builder produced no edits.", pr |-> NoPr, len |-> 0, text |-> ""]
OutcomeCiFailed(e) ==
    [kind |-> "CI failed: ", pr |-> NoPr, len |-> Slice(e, 10000).len, text |-> e.text]
OutcomeFixFailed(e) ==
    [kind |-> "Builder failed to fix: ", pr |-> NoPr, len |-> Slice(e, 500).len, text |-> e.text]
OutcomeNoFixEdits == [kind |-> "Builder produced no fix edits.", pr |-> NoPr, len |-> 0, text |-> ""]
CiErrorText(e) == [kind |-> "error", pr |-> NoPr, len |-> Slice(e, 10000).len, text |-> e.text]

\* iterationPlan?.title ?? '(early failure)'
PlanTitle(p) == IF p = NoPlan THEN "(early failure)" ELSE p.title

\* A document of the Memory collection: `kind` is the fixed text of the template
\* the content was built from, the other fields are what was interpolated.
Mem(kind, pr, title, text, err) ==
    [kind |-> kind, iter |-> iter, pr |-> pr, title |-> title, text |-> text, err |-> err]

\* ------------------------------------------------------------- PatchSession
NewSession == [attempts |-> 0, conversation |-> <<>>]
Exhausted(s) == s.attempts >= MaxFixAttempts
\* createPatch / fixPatch append their turn to the transcript; fixPatch counts.
AfterCreatePatch(s) == [s EXCEPT !.conversation = Append(@, "builder")]
AfterFixPatch_NoCount(s) == [s EXCEPT !.conversation = Append(@, "fixer")]

AfterFixPatch(s) ==
    [s EXCEPT !.attempts = @ + 1, !.conversation = Append(@, "fixer")]

\* ------------------------------------------------------------------ Init
InitLoop ==
    /\ runPc = "connectToDatabase"
    /\ runMerged = FALSE
    /\ caught = NoErr
    /\ exitErr = NoErr
    /\ dbConnected = FALSE
    /\ runTrace = <<>>
    /\ itPc = "idle"
    /\ iter = 0
    /\ active = 0
    /\ merged = FALSE
    /\ prNumber = NoPr
    /\ outcome = NoText
    /\ plannerMessages = <<>>
    /\ session = NoSession
    /\ iterationPlan = NoPlan
    /\ branchName = NoBranch
    /\ result = NoResult
    /\ pending = NoErr
    /\ trace = <<>>
    /\ prState = [n \in 1..(MaxIterations + 1) |-> "none"]
    /\ memories = <<>>
    /\ reflected = <<>>
    /\ logs = <<>>
    /\ stamped = [n \in 1..MaxIterations |-> {}]

\* ------------------------------------------------------------- iterate()
runLocals == <<runMerged, caught, exitErr, dbConnected, runTrace>>
itLocals == <<merged, prNumber, outcome, plannerMessages, session, iterationPlan,
              branchName, result>>
world == <<prState, memories, reflected, logs>>
runCtl == <<runPc, iter, active>>

\* try { ... } finally { await resetWorkspace() }: where control goes when the
\* try block completes, and where it goes when a call inside it throws.
TryDone == "resetWorkspace"
TryThrow_NoFinally == "throw"
TryThrow == "resetWorkspace"

Did(op, res) == trace' = Append(trace, Ev(op, res))

\* the awaited call `op` rejects; control goes to `target`
Throws(op, target) ==
    \E e \in Errors(op) :
        /\ Did(op, "threw")
        /\ pending' = e
        /\ itPc' = target

\* the awaited call `op` resolves; control goes to `next`
Resolves(op, res, next) ==
    /\ Did(op, res)
    /\ itPc' = next
    /\ UNCHANGED pending

\* storePastMemory: summarizeMemory (an LLM call), then MemoryModel.create
Stores(m, next) ==
    /\ Resolves("storePastMemory", "ok", next)
    /\ memories' = Append(memories, m)

\* line 47
SnapshotCodebase ==
    /\ itPc = "snapshotCodebase"
    /\ \/ Resolves("snapshotCodebase", "ok", "getContext")
       \/ Throws("snapshotCodebase", TryThrow)
    /\ UNCHANGED <<runLocals, itLocals, world, runCtl>>

\* line 48
GetContext ==
    /\ itPc = "getContext"
    /\ \/ Resolves("getContext", "ok", "getRecentLog")
       \/ Throws("getContext", TryThrow)
    /\ UNCHANGED <<runLocals, itLocals, world, runCtl>>

\* line 49
GetRecentLog ==
    /\ itPc = "getRecentLog"
    /\ \/ Resolves("getRecentLog", "ok", "plan")
       \/ Throws("getRecentLog", TryThrow)
    /\ UNCHANGED <<runLocals, itLocals, world, runCtl>>

\* lines 51-53
Plan ==
    /\ itPc = "plan"
    /\ \/ \E p \in Plans :
            /\ Resolves("plan", "ok", "storePlanned")
            /\ iterationPlan' = p
            /\ plannerMessages' = <<"planner">>
       \/ /\ Throws("plan", TryThrow)
          /\ UNCHANGED <<iterationPlan, plannerMessages>>
    /\ UNCHANGED <<runLocals, merged, prNumber, outcome, session, branchName, result,
                   world, runCtl>>

\* line 54
StorePlanned ==
    /\ itPc = "storePlanned"
    /\ \/ Stores(Mem("Planned change", NoPr, iterationPlan.title, NoText, NoErr), "createBranch")
       \/ /\ Throws("storePastMemory", TryThrow)
          /\ UNCHANGED memories
    /\ UNCHANGED <<runLocals, itLocals, prState, reflected, logs, runCtl>>

\* lines 56-57: the session is constructed, then createBranch is awaited
CreateBranch ==
    /\ itPc = "createBranch"
    /\ session' = NewSession
    /\ \/ /\ Resolves("createBranch", "ok", "createPatch")
          /\ branchName' = iterationPlan.title
       \/ /\ Throws("createBranch", TryThrow)
          /\ UNCHANGED branchName
    /\ UNCHANGED <<runLocals, merged, prNumber, outcome, plannerMessages, iterationPlan,
                   result, world, runCtl>>

\* what a call that resolved to n edit operations is recorded as
Edits(n) == IF n = 0 THEN "empty" ELSE "edits"

NoEdits_Never(n) == FALSE

\* edits.length === 0
NoEdits(n) == n = 0

\* lines 59-63
CreatePatch ==
    /\ itPc = "createPatch"
    /\ \/ \E n \in 0..1 :
            /\ session' = AfterCreatePatch(session)
            /\ IF NoEdits(n)
               THEN /\ Resolves("createPatch", Edits(n), TryDone)
                    /\ outcome' = OutcomeNoEdits
               ELSE /\ Resolves("createPatch", Edits(n), "commitAndPush")
                    /\ UNCHANGED outcome
       \/ /\ Throws("createPatch", TryThrow)
          /\ session' = AfterCreatePatch(session)
          /\ UNCHANGED outcome
    /\ UNCHANGED <<runLocals, merged, prNumber, plannerMessages, iterationPlan,
                   branchName, result, world, runCtl>>

\* line 64
CommitAndPush ==
    /\ itPc = "commitAndPush"
    /\ \/ Resolves("commitAndPush", "ok", "openPR")
       \/ Throws("commitAndPush", TryThrow)
    /\ UNCHANGED <<runLocals, itLocals, world, runCtl>>

\* the number the forge gives the next pull request
NextPr == Cardinality({ n \in DOMAIN prState : prState[n] # "none" }) + 1

\* line 65
OpenPR ==
    /\ itPc = "openPR"
    /\ \/ /\ Resolves("openPR", "ok", "awaitChecks")
          /\ prNumber' = NextPr
          /\ prState' = [prState EXCEPT ![NextPr] = "open"]
       \/ /\ Throws("openPR", TryThrow)
          /\ UNCHANGED <<prNumber, prState>>
    /\ UNCHANGED <<runLocals, merged, outcome, plannerMessages, session, iterationPlan,
                   branchName, result, memories, reflected, logs, runCtl>>

MergeGate_Always(r) == TRUE

\* if (result.passed)
MergeGate(r) == r.passed

GiveUp_Never(s) == FALSE

\* if (session.exhausted)
GiveUp(s) == Exhausted(s)

\* lines 68-79: await the verdict, then leave the loop or go on to a fix
AwaitChecks ==
    /\ itPc = "awaitChecks"
    /\ \/ \E r \in {[passed |-> TRUE, error |-> NoError]}
                   \cup {[passed |-> FALSE, error |-> e] : e \in CiErrors} :
            /\ result' = r
            /\ IF MergeGate(r)
               THEN /\ Resolves("awaitChecks", IF r.passed THEN "passed" ELSE "failed", "mergePR")
                    /\ merged' = TRUE
                    /\ outcome' = OutcomeMerged(prNumber)
               ELSE IF GiveUp(session)
               THEN /\ Resolves("awaitChecks", "failed", TryDone)
                    /\ outcome' = OutcomeCiFailed(ErrorOf(r))
                    /\ UNCHANGED merged
               ELSE /\ Resolves("awaitChecks", "failed", "storeCiFailed")
                    /\ UNCHANGED <<merged, outcome>>
       \/ /\ Throws("awaitChecks", TryThrow)
          /\ UNCHANGED <<result, merged, outcome>>
    /\ UNCHANGED <<runLocals, prNumber, plannerMessages, session, iterationPlan,
                   branchName, world, runCtl>>

\* line 82
StoreCiFailed ==
    /\ itPc = "storeCiFailed"
    /\ \/ Stores(Mem("CI failed for", prNumber, iterationPlan.title,
                     CiErrorText(ErrorOf(result)), NoErr), "fixPatch")
       \/ /\ Throws("storePastMemory", TryThrow)
          /\ UNCHANGED memories
    /\ UNCHANGED <<runLocals, itLocals, prState, reflected, logs, runCtl>>

\* lines 84-94: a throw of fixPatch is caught and ends the loop
FixPatch ==
    /\ itPc = "fixPatch"
    /\ \/ /\ ~Exhausted(session)
          /\ session' = AfterFixPatch(session)
          /\ \E n \in 0..1 :
                IF NoEdits(n)
                THEN /\ Resolves("fixPatch", Edits(n), TryDone)
                     /\ outcome' = OutcomeNoFixEdits
                ELSE /\ Resolves("fixPatch", Edits(n), "commitFix")
                     /\ UNCHANGED outcome
       \/ /\ session' = IF Exhausted(session) THEN session ELSE AfterFixPatch(session)
          /\ Resolves("fixPatch", "threw", TryDone)
          /\ outcome' = OutcomeFixFailed(ErrorOf(result))
    /\ UNCHANGED <<runLocals, merged, prNumber, plannerMessages, iterationPlan,
                   branchName, result, world, runCtl>>

\* line 96
CommitFix ==
    /\ itPc = "commitFix"
    /\ \/ Resolves("commitAndPush", "ok", "awaitChecks")
       \/ Throws("commitAndPush", TryThrow)
    /\ UNCHANGED <<runLocals, itLocals, world, runCtl>>

\* lines 100-101
MergePR ==
    /\ itPc = "mergePR"
    /\ \/ /\ Resolves("mergePR", "ok", "deleteBranchMerged")
          /\ prState' = [prState EXCEPT ![prNumber] = "merged"]
       \/ /\ Throws("mergePR", TryThrow)
          /\ UNCHANGED prState
    /\ UNCHANGED <<runLocals, itLocals, memories, reflected, logs, runCtl>>

\* line 102: deleteRemoteBranch(...).catch(() => {})
DeleteBranchMerged ==
    /\ itPc = "deleteBranchMerged"
    /\ \E res \in {"ok", "threw"} : Resolves("deleteRemoteBranch", res, "storeMerged")
    /\ UNCHANGED <<runLocals, itLocals, world, runCtl>>

\* line 103
StoreMerged ==
    /\ itPc = "storeMerged"
    /\ \/ Stores(Mem("Merged PR", prNumber, iterationPlan.title, NoText, NoErr), "getCoverage")
       \/ /\ Throws("storePastMemory", TryThrow)
          /\ UNCHANGED memories
    /\ UNCHANGED <<runLocals, itLocals, prState, reflected, logs, runCtl>>

\* lines 106-107
GetCoverage ==
    /\ itPc = "getCoverage"
    /\ \/ Resolves("getCoverage", "report", "storeCoverage")
       \/ Resolves("getCoverage", "null", TryDone)
       \/ Throws("getCoverage", TryThrow)
    /\ UNCHANGED <<runLocals, itLocals, world, runCtl>>

\* line 108
StoreCoverage ==
    /\ itPc = "storeCoverage"
    /\ \/ Stores(Mem("Post-merge coverage report", NoPr, "", NoText, NoErr), TryDone)
       \/ /\ Throws("storePastMemory", TryThrow)
          /\ UNCHANGED memories
    /\ UNCHANGED <<runLocals, itLocals, prState, reflected, logs, runCtl>>

\* lines 112-118: the finally block, then the pending exception leaves iterate,
\* or the code after the try statement runs
ResetWorkspace ==
    /\ itPc = "resetWorkspace"
    /\ \/ /\ Did("resetWorkspace", "ok")
          /\ UNCHANGED pending
          /\ itPc' = IF pending # NoErr THEN "throw"
                     ELSE IF merged THEN "reflect"
                     ELSE IF prNumber # NoPr THEN "closePR"
                     ELSE "storeGaveUp"
       \/ Throws("resetWorkspace", "throw")
    /\ UNCHANGED <<runLocals, itLocals, world, runCtl>>

\* line 119
ClosePR ==
    /\ itPc = "closePR"
    /\ \/ /\ Resolves("closePR", "ok", "deleteBranchClosed")
          /\ prState' = [prState EXCEPT ![prNumber] = "closed"]
       \/ /\ Throws("closePR", "throw")
          /\ UNCHANGED prState
    /\ UNCHANGED <<runLocals, itLocals, memories, reflected, logs, runCtl>>

\* line 120
DeleteBranchClosed ==
    /\ itPc = "deleteBranchClosed"
    /\ \E res \in {"ok", "threw"} : Resolves("deleteRemoteBranch", res, "storeClosed")
    /\ UNCHANGED <<runLocals, itLocals, world, runCtl>>

\* line 121
StoreClosed ==
    /\ itPc = "storeClosed"
    /\ \/ Stores(Mem("Closed PR", prNumber, PlanTitle(iterationPlan), outcome, NoErr), "reflect")
       \/ /\ Throws("storePastMemory", "throw")
          /\ UNCHANGED memories
    /\ UNCHANGED <<runLocals, itLocals, prState, reflected, logs, runCtl>>

\* line 123
StoreGaveUp ==
    /\ itPc = "storeGaveUp"
    /\ \/ Stores(Mem("Gave up on", NoPr, PlanTitle(iterationPlan), outcome, NoErr), "reflect")
       \/ /\ Throws("storePastMemory", "throw")
          /\ UNCHANGED memories
    /\ UNCHANGED <<runLocals, itLocals, prState, reflected, logs, runCtl>>

AllMessages_PlannerOnly(pm, s) == pm

\* [...plannerMessages, ...(session?.conversation ?? [])]
AllMessages(pm, s) == pm \o (IF s = NoSession THEN <<>> ELSE s.conversation)

\* lines 128-129
Reflect ==
    /\ itPc = "reflect"
    /\ reflected' = Append(reflected, [iter |-> iter, outcome |-> outcome,
                                       messages |-> AllMessages(plannerMessages, session)])
    /\ \/ Resolves("reflect", "ok", "storeReflection")
       \/ Throws("reflect", "throw")
    /\ UNCHANGED <<runLocals, itLocals, prState, memories, logs, runCtl>>

\* line 130
StoreReflection ==
    /\ itPc = "storeReflection"
    /\ \/ Stores(Mem("Self-reflection", NoPr, "", NoText, NoErr), "writeIterationLog")
       \/ /\ Throws("storePastMemory", "throw")
          /\ UNCHANGED memories
    /\ UNCHANGED <<runLocals, itLocals, prState, reflected, logs, runCtl>>

\* line 131
WriteIterationLog ==
    /\ itPc = "writeIterationLog"
    /\ \/ /\ Resolves("writeIterationLog", "ok", "return")
          /\ logs' = Append(logs, iter)
       \/ /\ Throws("writeIterationLog", "throw")
          /\ UNCHANGED logs
    /\ UNCHANGED <<runLocals, itLocals, prState, memories, reflected, runCtl>>

\* ------------------------------------------------------------------ run()
itAll == <<itPc, merged, prNumber, outcome, plannerMessages, session, iterationPlan,
           branchName, result, pending, trace>>

RunDid(op, res) == runTrace' = Append(runTrace, Ev(op, res))

\* line 16: outside the try statement
ConnectToDatabase ==
    /\ runPc = "connectToDatabase"
    /\ \/ /\ dbConnected' = TRUE
          /\ RunDid("connectToDatabase", "ok")
          /\ runPc' = "cleanupStalePRs"
          /\ UNCHANGED exitErr
       \/ \E e \in Errors("connectToDatabase") :
            /\ exitErr' = e
            /\ RunDid("connectToDatabase", "threw")
            /\ runPc' = "exit"
            /\ UNCHANGED dbConnected
    /\ UNCHANGED <<runMerged, caught, iter, active, itAll, world>>

\* line 19
CleanupStalePRs ==
    /\ runPc = "cleanupStalePRs"
    /\ \/ /\ runPc' = "cloneRepo"
          /\ RunDid("cleanupStalePRs", "ok")
          /\ UNCHANGED caught
       \/ \E e \in Errors("cleanupStalePRs") :
            /\ caught' = e
            /\ RunDid("cleanupStalePRs", "threw")
            /\ runPc' = "catch"
    /\ UNCHANGED <<runMerged, exitErr, dbConnected, iter, active, itAll, world>>

\* line 20
CloneRepo ==
    /\ runPc = "cloneRepo"
    /\ \/ /\ runPc' = "while"
          /\ RunDid("cloneRepo", "ok")
          /\ UNCHANGED caught
       \/ \E e \in Errors("cloneRepo") :
            /\ caught' = e
            /\ RunDid("cloneRepo", "threw")
            /\ runPc' = "catch"
    /\ UNCHANGED <<runMerged, exitErr, dbConnected, iter, active, itAll, world>>

LoopCond_Inverted(m) == m

\* while (!merged)
LoopCond(m) == ~m

\* lines 23-24 and 38-44: the loop test, then iterate() is entered (its locals
\* are initialised and the per-iteration histories start afresh)
While ==
    /\ runPc = "while"
    /\ IF LoopCond(runMerged)
       THEN /\ iter < MaxIterations
            /\ runPc' = "iterate"
            /\ iter' = iter + 1
            /\ active' = active + 1
            /\ itPc' = "snapshotCodebase"
            /\ merged' = FALSE
            /\ prNumber' = NoPr
            /\ outcome' = NoText
            /\ plannerMessages' = <<>>
            /\ session' = NoSession
            /\ iterationPlan' = NoPlan
            /\ branchName' = NoBranch
            /\ result' = NoResult
            /\ pending' = NoErr
            /\ trace' = <<>>
            /\ memories' = <<>>
            /\ reflected' = <<>>
       ELSE /\ runPc' = "finally"
            /\ UNCHANGED <<iter, active, itAll, memories, reflected>>
    /\ UNCHANGED <<runLocals, prState, logs>>

\* line 133 and line 24: iterate returns `merged`, run assigns it
Return ==
    /\ itPc = "return"
    /\ runPc = "iterate"
    /\ runMerged' = merged
    /\ itPc' = "idle"
    /\ active' = active - 1
    /\ runPc' = "while"
    /\ UNCHANGED <<caught, exitErr, dbConnected, runTrace, iter, merged, prNumber,
                   outcome, plannerMessages, session, iterationPlan, branchName, result,
                   pending, trace, world>>

\* lines 24-26: an exception leaves iterate and is caught by run
Throw ==
    /\ itPc = "throw"
    /\ runPc = "iterate"
    /\ caught' = pending
    /\ itPc' = "idle"
    /\ active' = active - 1
    /\ runPc' = "catch"
    /\ UNCHANGED <<runMerged, exitErr, dbConnected, runTrace, iter, merged, prNumber,
                   outcome, plannerMessages, session, iterationPlan, branchName, result,
                   pending, trace, world>>

\* the rejection of the storePastMemory call of the catch clause
CrashStoreError(k) == [op |-> "storePastMemory (crash report)", kind |-> k]

Rethrown_StorageError(orig, storeErr) == IF storeErr # NoErr THEN storeErr ELSE orig

\* throw error: what the catch clause throws when the crash memory could not be
\* stored (`storeErr` is that failure) or could (`storeErr` = NoErr)
Rethrown(orig, storeErr) == orig

\* lines 26-31
Catch ==
    /\ runPc = "catch"
    /\ \/ /\ memories' = Append(memories, Mem("Iteration crashed with error", NoPr, "", NoText, caught))
          /\ RunDid("storePastMemory", "ok")
          /\ exitErr' = Rethrown(caught, NoErr)
       \/ \E k \in FailKinds("storePastMemory") :
            /\ RunDid("storePastMemory", "threw")
            /\ exitErr' = Rethrown(caught, CrashStoreError(k))
            /\ UNCHANGED memories
    /\ runPc' = "finally"
    /\ UNCHANGED <<runMerged, caught, dbConnected, iter, active, itAll,
                   prState, reflected, logs>>

\* lines 32-34
Finally ==
    /\ runPc = "finally"
    /\ \/ /\ RunDid("disconnectFromDatabase", "ok")
          /\ UNCHANGED exitErr
       \/ \E e \in Errors("disconnectFromDatabase") :
            /\ RunDid("disconnectFromDatabase", "threw")
            /\ exitErr' = e
    /\ runPc' = "exit"
    /\ UNCHANGED <<runMerged, caught, dbConnected, iter, active, itAll, world>>

Iterate ==
    \/ SnapshotCodebase \/ GetContext \/ GetRecentLog \/ Plan \/ StorePlanned
    \/ CreateBranch \/ CreatePatch \/ CommitAndPush \/ OpenPR \/ AwaitChecks
    \/ StoreCiFailed \/ FixPatch \/ CommitFix \/ MergePR \/ DeleteBranchMerged
    \/ StoreMerged \/ GetCoverage \/ StoreCoverage \/ ResetWorkspace \/ ClosePR
    \/ DeleteBranchClosed \/ StoreClosed \/ StoreGaveUp \/ Reflect \/ StoreReflection
    \/ WriteIterationLog

Run ==
    \/ ConnectToDatabase \/ CleanupStalePRs \/ CloneRepo \/ While \/ Return \/ Throw
    \/ Catch \/ Finally

\* ============================================================== callApi()
Phases == {"planner", "builder", "fixer", "reflect", "memory"}
IterationIds == {"", "iteration-1"}

\* callApi hands its phase on to buildParams and recordGenerated and does
\* nothing else with it: one phase per model is followed through the gateway
CalledPhases == {"planner", "memory"}

\* config.phases[phase].model
ModelOf(phase) == IF phase = "memory" THEN "claude-haiku-4-5" ELSE "claude-sonnet-4-6"

\* config.batch: the values the poll loop is run with
BatchConfigs == { [pollInterval |-> 5, maxPollInterval |-> 12, pollBackoff |-> 2],
                  [pollInterval |-> 3, maxPollInterval |-> 3, pollBackoff |-> 1] }

\* content blocks of a response
ThinkingBlock == [type |-> "thinking", thinking |-> "plan the change", signature |-> "sig-1"]
TextBlock == [type |-> "text", text |-> "done"]
\* a thinking block that carries no signature, and a block of another type that
\* carries one
UnsignedThinkingBlock == [type |-> "thinking", thinking |-> "weigh the options"]
SignedTextBlock == [type |-> "text", text |-> "hello", signature |-> "shouldStay"]
\* the messages a succeeded result can carry (stop_reason may be null)
\* response.usage: the cache fields and the breakdown of cache_creation are
\* optional
Usages ==
    << [input_tokens |-> 10000, output_tokens |-> 10000],
       [input_tokens |-> 500, output_tokens |-> 200],
       [input_tokens |-> 10000, output_tokens |-> 0,
        cache_read_input_tokens |-> 8000, cache_creation_input_tokens |-> 0],
       [input_tokens |-> 10000, output_tokens |-> 1000,
        cache_read_input_tokens |-> 3000, cache_creation_input_tokens |-> 2000,
        cache_creation |-> [ephemeral_5m_input_tokens |-> 1500,
                            ephemeral_1h_input_tokens |-> 500]],
       [input_tokens |-> 10000, output_tokens |-> 0,
        cache_read_input_tokens |-> 0, cache_creation_input_tokens |-> 5000] >>

Messages == { [content |-> <<TextBlock>>, stop_reason |-> "end_turn", usage |-> Usages[1]],
              [content |-> <<TextBlock>>, stop_reason |-> "null", usage |-> Usages[2]],
              [content |-> <<ThinkingBlock, TextBlock>>, stop_reason |-> "end_turn",
               usage |-> Usages[3]],
              [content |-> <<UnsignedThinkingBlock, SignedTextBlock, ThinkingBlock>>,
               stop_reason |-> "tool_use", usage |-> Usages[4]] }

NoParams == [phase |-> "none", model |-> "none"]
NoMessage == [content |-> <<>>, stop_reason |-> "none", usage |-> [input_tokens |-> 0, output_tokens |-> 0]]
NoEntry == [type |-> "none", message |-> NoMessage, error |-> "none"]
NoApiErr == [message |-> "none", detail |-> "none"]

\* the entries a single-request batch can yield
Entries ==
    { [type |-> "succeeded", message |-> m, error |-> "none"] : m \in Messages }
    \cup { [type |-> "errored", message |-> NoMessage, error |-> "{type:overloaded_error}"] }
    \cup { [type |-> t, message |-> NoMessage, error |-> "none"] : t \in {"canceled", "expired"} }

stripThinkingSignatures_EveryBlock(content) ==
    [i \in 1..Len(content) |->
        [f \in DOMAIN content[i] \ {"signature"} |-> content[i][f]]]

\* lines 101-109
stripThinkingSignatures(content) ==
    [i \in 1..Len(content) |->
        IF content[i].type = "thinking"
        THEN [f \in DOMAIN content[i] \ {"signature"} |-> content[i][f]]
        ELSE content[i]]

\* usage.f ?? fallback
OrElse(usage, f, fallback) == IF f \in DOMAIN usage THEN usage[f] ELSE fallback

\* models/Generated.ts is not among the sources: the pricing table is the one
\* its tests state, in cents per million tokens, with the default entry for an
\* unknown model
Pricing(model) ==
    CASE model = "claude-sonnet-4-6" ->
            [input |-> 300, output |-> 1500, cacheWrite5m |-> 375, cacheWrite1h |-> 600,
             cacheRead |-> 30]
      [] model = "claude-haiku-4-5" ->
            [input |-> 100, output |-> 500, cacheWrite5m |-> 125, cacheWrite1h |-> 200,
             cacheRead |-> 10]
      [] OTHER ->
            [input |-> 500, output |-> 2500, cacheWrite5m |-> 625, cacheWrite1h |-> 1000,
             cacheRead |-> 50]

\* the 50% multiplier, on a cost counted in half units
batchMultiplier_None(batch) == 2

batchMultiplier(batch) == IF batch THEN 1 ELSE 2

\* computeCost(model, usage, { batch }), in units of half a cent per million
\* tokens so that the multiplier stays exact: cache reads and cache writes are
\* taken out of the input tokens and priced at their own rates; without the
\* breakdown every cache write is a 5-minute write
computeCost(model, usage, batch) ==
    LET price == Pricing(model)
        cacheRead == OrElse(usage, "cache_read_input_tokens", 0)
        cacheWrite == OrElse(usage, "cache_creation_input_tokens", 0)
        write5m == IF "cache_creation" \in DOMAIN usage
                   THEN usage.cache_creation.ephemeral_5m_input_tokens ELSE cacheWrite
        write1h == IF "cache_creation" \in DOMAIN usage
                   THEN usage.cache_creation.ephemeral_1h_input_tokens ELSE 0
        uncached == usage.input_tokens - cacheRead - cacheWrite
    IN  (uncached * price.input + usage.output_tokens * price.output
         + write5m * price.cacheWrite5m + write1h * price.cacheWrite1h
         + cacheRead * price.cacheRead) * batchMultiplier(batch)

\* lines 117-136: the document recordGenerated creates
GeneratedRecord(p, response, batch) ==
    [phase |-> p.phase,
     modelId |-> p.model,
     iterationId |-> activeIterationId,
     response |-> stripThinkingSignatures(response.content),
     inputTokens |-> response.usage.input_tokens,
     outputTokens |-> response.usage.output_tokens,
     cacheWrite5mTokens |->
        IF "cache_creation" \in DOMAIN response.usage
        THEN response.usage.cache_creation.ephemeral_5m_input_tokens
        ELSE OrElse(response.usage, "cache_creation_input_tokens", 0),
     cacheWrite1hTokens |->
        IF "cache_creation" \in DOMAIN response.usage
        THEN response.usage.cache_creation.ephemeral_1h_input_tokens
        ELSE 0,
     cacheReadTokens |-> OrElse(response.usage, "cache_read_input_tokens", 0),
     cost |-> computeCost(p.model, response.usage, batch),
     batch |-> batch,
     stopReason |-> IF response.stop_reason = "null" THEN "unknown" ELSE response.stop_reason,
     createdAt |-> apiCalls]

InitApi ==
    /\ apiPc = "idle"
    /\ apiCalls = 0
    /\ batchConfig \in BatchConfigs
    /\ activeIterationId = ""
    /\ params = NoParams
    /\ status = "none"
    /\ delay = 0
    /\ slept = <<>>
    /\ resultsRead = FALSE
    /\ entry = NoEntry
    /\ apiRet = NoMessage
    /\ apiErr = NoApiErr
    /\ generated = <<>>

\* the gateway at rest, as the controller's specification leaves it
ApiIdle ==
    /\ InitApi
    /\ batchConfig = [pollInterval |-> 5, maxPollInterval |-> 12, pollBackoff |-> 2]

apiCall == <<params, status, delay, slept, resultsRead, entry, apiRet, apiErr>>

\* lines 97-99
SetIterationId ==
    /\ \E id \in IterationIds : id # activeIterationId /\ activeIterationId' = id
    /\ UNCHANGED <<apiPc, apiCalls, batchConfig, apiCall, generated>>

ApiThrows(msg, detail) ==
    /\ apiErr' = [message |-> msg, detail |-> detail]
    /\ apiPc' = "threw"

\* lines 142-143: callApi is entered (after the previous call has settled) and
\* awaits buildParams
CallApi ==
    /\ apiPc \in {"idle", "returned", "threw"}
    /\ apiCalls < MaxCalls
    /\ apiCalls' = apiCalls + 1
    /\ status' = "none"
    /\ delay' = 0
    /\ slept' = <<>>
    /\ resultsRead' = FALSE
    /\ entry' = NoEntry
    /\ apiRet' = NoMessage
    /\ \/ \E ph \in CalledPhases :
            /\ params' = [phase |-> ph, model |-> ModelOf(ph)]
            /\ apiPc' = "create"
            /\ apiErr' = NoApiErr
       \/ /\ params' = NoParams
          /\ ApiThrows("buildParams failed", "")
    /\ UNCHANGED <<batchConfig, activeIterationId, generated>>

Ended_Never(st) == FALSE

\* line 155 and line 159: status !== 'ended', negated
Ended(st) == st = "ended"

\* lines 147-155: the batch is created; the loop is entered unless it has ended
BatchCreate ==
    /\ apiPc = "create"
    /\ \/ \E st \in {"in_progress", "ended"} :
            /\ status' = st
            /\ delay' = batchConfig.pollInterval
            /\ apiPc' = IF ~Ended(st) THEN "sleep" ELSE "results"
            /\ UNCHANGED apiErr
       \/ /\ ApiThrows("batches.create failed", "")
          /\ UNCHANGED <<status, delay>>
    /\ UNCHANGED <<apiCalls, batchConfig, activeIterationId, params, slept, resultsRead,
                   entry, apiRet, generated>>

NextDelay_Uncapped(d) == d * batchConfig.pollBackoff

\* Math.min(maxPollInterval, delay * pollBackoff)
NextDelay(d) == Min(batchConfig.maxPollInterval, d * batchConfig.pollBackoff)

\* lines 155-164: one turn of the poll loop
SleepAndPoll ==
    /\ apiPc = "sleep"
    /\ Len(slept) < MaxPolls
    /\ slept' = Append(slept, delay)
    /\ \/ \E st \in {"in_progress", "canceling", "ended"} :
            /\ status' = st
            /\ delay' = IF ~Ended(st) THEN NextDelay(delay) ELSE delay
            /\ apiPc' = IF ~Ended(st) THEN "sleep" ELSE "results"
            /\ UNCHANGED apiErr
       \/ /\ ApiThrows("batches.retrieve failed", "")
          /\ UNCHANGED <<status, delay>>
    /\ UNCHANGED <<apiCalls, batchConfig, activeIterationId, params, resultsRead, entry,
                   apiRet, generated>>

Succeeded_NotErrored(e) == e.type # "errored"

\* entry.result.type === 'succeeded'
Succeeded(e) == e.type = "succeeded"

\* lines 173-175
Detail(e) == IF e.type = "errored" THEN e.error ELSE e.type

\* lines 166-179: the results are read; the first entry decides
ReadResults ==
    /\ apiPc = "results"
    /\ resultsRead' = TRUE
    /\ \/ \E e \in Entries :
            /\ entry' = e
            /\ IF Succeeded(e)
               THEN /\ apiPc' = "record"
                    /\ UNCHANGED apiErr
               ELSE ApiThrows("Batch request failed: ", Detail(e))
       \/ /\ ApiThrows("Batch completed but returned no results", "")
          /\ UNCHANGED entry
       \/ /\ ApiThrows("batches.results failed", "")
          /\ UNCHANGED entry
    /\ UNCHANGED <<apiCalls, batchConfig, activeIterationId, params, status, delay, slept,
                   apiRet, generated>>

responseAfterRecord_Stripped(response) ==
    [response EXCEPT !.content = stripThinkingSignatures(@)]

\* lines 102-108 and 170-171: the response object after recordGenerated was
\* given it.  content.map builds a new array and the rest pattern a new
\* object for each thinking block, so nothing is written to the response.
responseAfterRecord(response) == response

\* lines 170-171 and 111-140: recordGenerated swallows a failure of
\* GeneratedModel.create; callApi then returns the message
RecordGenerated ==
    /\ apiPc = "record"
    /\ \/ generated' = Append(generated, GeneratedRecord(params, entry.message, TRUE))
       \/ UNCHANGED generated
    /\ apiRet' = responseAfterRecord(entry.message)
    /\ apiPc' = "returned"
    /\ UNCHANGED <<apiCalls, batchConfig, activeIterationId, params, status, delay, slept,
                   resultsRead, entry, apiErr>>

\* ================================================= llm/api.ts: buildParams
\* A system block is a record; a block with a cache marker has the field
\* cache_control.
TextBlockParam(text) == [type |-> "text", text |-> text]

withMarker_Unmarked(block) == block

\* cache_control: { type: 'ephemeral' }
withMarker(block) ==
    [f \in DOMAIN block \cup {"cache_control"} |->
        IF f = "cache_control" THEN "ephemeral" ELSE block[f]]

\* PHASE_EXTRAS: the system prompt of a phase and the number of its tools
SystemPrompt(phase) ==
    CASE phase = "planner" -> "SYSTEM_PLAN"
      [] phase = "builder" -> "SYSTEM_BUILD"
      [] phase = "fixer" -> "SYSTEM_FIX"
      [] phase = "reflect" -> "SYSTEM_REFLECT"
      [] phase = "memory" -> "SYSTEM_MEMORY"
PhaseTools(phase) ==
    CASE phase = "planner" -> 1
      [] phase \in {"builder", "fixer"} -> 2
      [] OTHER -> 0
THINKING_PHASES == {"planner", "builder", "fixer", "reflect"}

\* what an awaited helper can return where the code tests it for truth
MaybeText(text) == {"null", "", text}
Truthy(text) == text \notin {"null", ""}

NoRequest == [model |-> "none", system |-> <<>>, tools |-> 0, thinking |-> FALSE]

InitParams ==
    /\ bpPc = "idle"
    /\ bpPhase = "none"
    /\ bpTools = 0
    /\ workingContext = "null"
    /\ system = <<>>
    /\ built = NoRequest

\* an awaited helper of buildParams rejects
ParamsThrow ==
    /\ bpPc' = "threw"
    /\ UNCHANGED <<bpPhase, bpTools, workingContext, system, built>>

\* line 32: buildParams(phase, messages, tools) is called
BuildParams ==
    /\ bpPc \in {"idle", "returned", "threw"}
    /\ \E phase \in Phases, tools \in 0..1 :
          /\ bpPhase' = phase
          /\ bpTools' = tools
          /\ bpPc' = IF phase # "memory" THEN "prepareContext" ELSE "system"
    /\ workingContext' = "null"
    /\ system' = <<>>
    /\ built' = NoRequest

\* lines 36-38
PrepareContext ==
    /\ bpPc = "prepareContext"
    /\ \/ /\ workingContext' \in MaybeText("workingContext")
          /\ bpPc' = "system"
          /\ UNCHANGED <<bpPhase, bpTools, system, built>>
       \/ ParamsThrow

\* lines 42-56: the base system prompt, then the codebase context with the
\* marker, or the marker on the base prompt
SystemBase ==
    /\ bpPc = "system"
    /\ \/ /\ system' =
                IF bpPhase \in {"builder", "fixer", "planner"}
                THEN <<TextBlockParam(SystemPrompt(bpPhase)),
                       withMarker(TextBlockParam("codebaseContext"))>>
                ELSE <<withMarker(TextBlockParam(SystemPrompt(bpPhase)))>>
          /\ bpPc' = IF bpPhase = "planner" THEN "coverage" ELSE "working"
          /\ UNCHANGED <<bpPhase, bpTools, workingContext, built>>
       \/ /\ bpPhase \in {"builder", "fixer", "planner"}
          /\ ParamsThrow

\* a dynamic block is pushed when the text is truthy
Pushed(text, block) == IF Truthy(text) THEN Append(system, TextBlockParam(block)) ELSE system

\* lines 60-63
SystemCoverage ==
    /\ bpPc = "coverage"
    /\ \/ /\ \E coverage \in MaybeText("coverage") :
                system' = Pushed(coverage, "## Code Coverage (last CI run on main)")
          /\ bpPc' = "gitLog"
          /\ UNCHANGED <<bpPhase, bpTools, workingContext, built>>
       \/ ParamsThrow

\* lines 64-65
SystemGitLog ==
    /\ bpPc = "gitLog"
    /\ \/ /\ system' = Append(system, TextBlockParam("Recent git log:"))
          /\ bpPc' = "memoryContext"
          /\ UNCHANGED <<bpPhase, bpTools, workingContext, built>>
       \/ ParamsThrow

\* lines 66-67
SystemMemory ==
    /\ bpPc = "memoryContext"
    /\ \/ /\ system' = Append(system, TextBlockParam("memoryContext"))
          /\ bpPc' = "unusedFunctions"
          /\ UNCHANGED <<bpPhase, bpTools, workingContext, built>>
       \/ ParamsThrow

\* lines 68-71
SystemUnused ==
    /\ bpPc = "unusedFunctions"
    /\ \/ /\ \E unusedFunctions \in MaybeText("unusedFunctions") :
                system' = Pushed(unusedFunctions, "## Unused Functions")
          /\ bpPc' = "working"
          /\ UNCHANGED <<bpPhase, bpTools, workingContext, built>>
       \/ ParamsThrow

\* lines 74-92: the working context goes last; the request is returned
ReturnParams ==
    /\ bpPc = "working"
    /\ system' = Pushed(workingContext, "workingContext")
    /\ built' = [model |-> ModelOf(bpPhase),
                 system |-> system',
                 tools |-> PhaseTools(bpPhase) + bpTools,
                 thinking |-> bpPhase \in THINKING_PHASES]
    /\ bpPc' = "returned"
    /\ UNCHANGED <<bpPhase, bpTools, workingContext>>

\* ================================================ tools/git.ts: applyEdits
\* Texts are sequences of characters, so that indexOf and slice are computed.
Chars == {"a", "b"}
Texts(n) == UNION { [1..k -> Chars] : k \in 0..n }

\* the one file the operations are aimed at, and the state of a path without a
\* file
Paths == {"src/greet.ts"}
Absent == <<"ENOENT">>

\* the contents a file of the workspace can have
FileContents == Texts(MaxFileLen)

\* the arguments the builder passes
OldStrings == { <<>>, <<"a">>, <<"a", "a">>, <<"a", "b">> }
NewStrings == { <<>>, <<"b">> }
CreateContents == { <<>>, <<"a", "b">> }

\* EditOperation
Operations ==
    { [type |-> "replace", filePath |-> p, oldString |-> o, newString |-> n] :
          p \in Paths, o \in OldStrings, n \in NewStrings }
    \cup { [type |-> "create", filePath |-> p, content |-> c] :
          p \in Paths, c \in CreateContents }
    \cup { [type |-> "delete", filePath |-> p] : p \in Paths }

NoOperation == [type |-> "none"]
NoError_ == "none"
NoEdit == [op |-> NoOperation, before |-> Absent, error |-> NoError_]

\* a workspace, with no call of applyEdits in progress
EditsAtRest ==
    /\ editPc = "idle"
    /\ operations = <<>>
    /\ opIndex = 0
    /\ errors = <<>>
    /\ lastEdit = NoEdit
    /\ editRet = "none"
    /\ attempted = <<>>

InitEdits ==
    /\ files \in [Paths -> FileContents \cup {Absent}]
    /\ EditsAtRest

\* the workspace as the other specifications leave it
EditsIdle ==
    /\ files = [p \in Paths |-> Absent]
    /\ EditsAtRest

\* String.prototype.indexOf(searchString, position), positions counted from 0:
\* the search starts at min(max(position, 0), length), and the empty string is
\* found at the start position
indexOf(content, searchString, position) ==
    LET start == Min(IF position > 0 THEN position ELSE 0, Len(content))
        found == { k \in start..(Len(content) - Len(searchString)) :
                      SubSeq(content, k + 1, k + Len(searchString)) = searchString }
    IN  IF found = {} THEN -1 ELSE CHOOSE k \in found : \A other \in found : k <= other

\* String.prototype.slice(from, to) and slice(from), positions counted from 0
slice(content, from, to) == SubSeq(content, from + 1, to)
sliceFrom(content, from) == SubSeq(content, from + 1, Len(content))

\* lines 43-58: what a replace does to a file that was read: the error it
\* pushes, or the text it writes
replace(content, oldString, newString) ==
    LET index == indexOf(content, oldString, 0)
        secondIndex == indexOf(content, oldString, index + 1)
    IN  IF index = -1
        THEN [error |-> "oldString not found in file", updated |-> content]
        ELSE IF secondIndex # -1
        THEN [error |-> "oldString matches multiple locations", updated |-> content]
        ELSE [error |-> NoError_,
              updated |-> slice(content, 0, index) \o newString
                          \o sliceFrom(content, index + Len(oldString))]

\* line 35: applyEdits is called.  One call is followed from each workspace:
\* a later call starts in a workspace that is an initial one as well.
ApplyEdits ==
    /\ editPc = "idle"
    /\ editRet = "none"
    /\ \E n \in 1..MaxOps : operations' \in [1..n -> Operations]
    /\ opIndex' = 1
    /\ errors' = <<>>
    /\ editPc' = "loop"
    /\ editRet' = "none"
    /\ lastEdit' = NoEdit
    /\ attempted' = <<>>
    /\ UNCHANGED files

\* lines 60-62: mkdir and writeFile; the file is created or overwritten
create(content, newContent) == [error |-> NoError_, updated |-> newContent]

delete_KeepsFile(content) == [error |-> NoError_, updated |-> content]

\* lines 64-65: unlink rejects when there is no file
delete(content) ==
    IF content = Absent
    THEN [error |-> "ENOENT", updated |-> content]
    ELSE [error |-> NoError_, updated |-> Absent]

\* lines 42-70: what one operation does to the file at its path; readFile
\* rejects when there is no file, and the catch clause pushes the message
applied(op, content) ==
    CASE op.type = "replace" ->
            IF content = Absent
            THEN [error |-> "ENOENT", updated |-> content]
            ELSE replace(content, op.oldString, op.newString)
      [] op.type = "create" -> create(content, op.content)
      [] op.type = "delete" -> delete(content)

nextTurn_StopAtFailure(error) ==
    IF error = NoError_ THEN opIndex + 1 ELSE Len(operations) + 1

\* the turn after this one: `continue` and the end of the try block both go on
\* with the next operation
nextTurn(error) == opIndex + 1

\* the operation pushed `error`, or went through
Attempted(op, error) ==
    /\ lastEdit' = [op |-> op, before |-> files[op.filePath], error |-> error]
    /\ errors' = IF error = NoError_ THEN errors ELSE Append(errors, error)
    /\ opIndex' = nextTurn(error)

\* lines 38-71: one turn of the loop
ApplyOperation ==
    /\ editPc = "loop"
    /\ opIndex <= Len(operations)
    /\ LET op == operations[opIndex]
           content == files[op.filePath]
           done == applied(op, content)
       IN  /\ Attempted(op, done.error)
           /\ files' = [files EXCEPT ![op.filePath] = done.updated]
           /\ attempted' = Append(attempted,
                  [op |-> op, before |-> content, after |-> done.updated,
                   error |-> done.error])
    /\ UNCHANGED <<editPc, operations, editRet>>

\* lines 73-77: the loop is over; throw if an error was pushed
EditsDone ==
    /\ editPc = "loop"
    /\ opIndex > Len(operations)
    /\ editRet' = IF Len(errors) > 0 THEN "Edit operations failed" ELSE "applied"
    /\ editPc' = "idle"
    /\ UNCHANGED <<files, operations, opIndex, errors, lastEdit, attempted>>

\* ------------------------- tools/git.ts: validateOperations, then applyEdits
\* null, and the paths that are empty once trimmed
Null == <<"null">>
BlankPaths == {"", "  "}
trim(path) == IF path \in BlankPaths THEN "" ELSE path

\* operations that pass validateOperations, and operations that do not: a
\* field that is undefined is left out, a field that is null holds Null
ValidatedOperations ==
    { [type |-> "replace", filePath |-> "src/greet.ts", oldString |-> <<"a">>,
       newString |-> <<"b">>],
      [type |-> "replace", filePath |-> "src/greet.ts", oldString |-> <<>>,
       newString |-> <<>>],
      [type |-> "create", filePath |-> "src/greet.ts", content |-> <<>>],
      [type |-> "delete", filePath |-> "src/greet.ts"] }
InvalidOperations ==
    { [type |-> "replace", filePath |-> "src/greet.ts", newString |-> <<"b">>],
      [type |-> "replace", filePath |-> "src/greet.ts", oldString |-> <<"a">>,
       newString |-> Null],
      [type |-> "replace", filePath |-> "src/greet.ts", oldString |-> Null,
       newString |-> <<"b">>],
      [type |-> "create", filePath |-> "src/greet.ts"],
      [type |-> "create", filePath |-> "src/greet.ts", content |-> Null],
      [type |-> "create", filePath |-> "", content |-> <<"a", "b">>],
      [type |-> "delete", filePath |-> "  "],
      [type |-> "delete"] }

missing_UndefinedOnly(op, field) == field \notin DOMAIN op

\* op.field === undefined || op.field === null
missing(op, field) == field \notin DOMAIN op \/ op[field] = Null

\* lines 253-268: the errors pushed for operations[i]
operationErrors(op) ==
    (IF "filePath" \notin DOMAIN op \/ trim(op.filePath) = ""
     THEN <<"filePath is required and must be non-empty">> ELSE <<>>)
    \o (IF op.type = "replace" /\ missing(op, "oldString")
        THEN <<"oldString is required for replace operations">> ELSE <<>>)
    \o (IF op.type = "replace" /\ missing(op, "newString")
        THEN <<"newString is required for replace operations">> ELSE <<>>)
    \o (IF op.type = "create" /\ missing(op, "content")
        THEN <<"content is required for create operations">> ELSE <<>>)

\* lines 246-272
RECURSIVE validateOperations(_)
validateOperations(ops) ==
    IF ops = <<>> THEN <<>>
    ELSE operationErrors(Head(ops)) \o validateOperations(Tail(ops))

\* lines 274-280: applyEdits with validation: throw before the loop when an
\* operation is invalid, else go on to the loop of ApplyOperation
ApplyValidatedEdits ==
    /\ editPc = "idle"
    /\ editRet = "none"
    /\ \E n \in 1..MaxOps :
          operations' \in [1..n -> ValidatedOperations \cup InvalidOperations]
    /\ LET validationErrors == validateOperations(operations')
       IN  IF Len(validationErrors) > 0
           THEN /\ editRet' = "Edit operation validation failed"
                /\ errors' = validationErrors
                /\ editPc' = "idle"
                /\ opIndex' = 0
           ELSE /\ editRet' = "none"
                /\ errors' = <<>>
                /\ editPc' = "loop"
                /\ opIndex' = 1
    /\ lastEdit' = NoEdit
    /\ attempted' = <<>>
    /\ UNCHANGED files

\* ============================================ tools/github.ts: awaitPRChecks
\* The function is not among the sources; it is modelled from the awaitChecks
\* state machine of the specification and from the calls of its test suite.
\* Times are in seconds.
POLL_INTERVAL == 30
NO_CHECKS_TIMEOUT == 120
TIMEOUT == 1200

\* a check run as checks.listForRef returns it: a run has a conclusion when it
\* is completed
CheckRuns ==
    { [status |-> "in_progress", conclusion |-> "null"] }
    \cup { [status |-> "completed", conclusion |-> c] :
              c \in {"success", "neutral", "skipped", "failure"} }

\* what one poll can return
RunLists == UNION { [1..n -> CheckRuns] : n \in 0..MaxRuns }

NoCiResult == [passed |-> FALSE, error |-> "none"]

InitChecks ==
    /\ ciPc = "idle"
    /\ elapsed = 0
    /\ checkRuns = <<>>
    /\ noRunsYet = TRUE
    /\ ciResult = NoCiResult

allCompleted(runs) == \A i \in DOMAIN runs : runs[i].status = "completed"

Passing_AnyConclusion == {"success", "neutral", "skipped", "failure"}

Passing == {"success", "neutral", "skipped"}

\* the three states of the machine: NoRuns, Completed, Waiting
verdict(runs, time) ==
    IF Len(runs) = 0
    THEN IF time < NO_CHECKS_TIMEOUT THEN "continue" ELSE "pass"
    ELSE IF allCompleted(runs)
    THEN IF \A i \in DOMAIN runs : runs[i].conclusion \in Passing THEN "pass" ELSE "fail"
    ELSE "continue"

timedOut_Late(time) == time >= TIMEOUT + POLL_INTERVAL

\* the overall timeout has elapsed
timedOut(time) == time >= TIMEOUT

\* awaitPRChecks(sha) is called
AwaitPRChecks ==
    /\ ciPc \in {"idle", "done"}
    /\ ciPc' = "poll"
    /\ elapsed' = 0
    /\ checkRuns' = <<>>
    /\ noRunsYet' = TRUE
    /\ ciResult' = NoCiResult

\* one poll.  The forge keeps the check runs of a commit: once a poll returned
\* runs, the later polls return runs.
PollChecks ==
    /\ ciPc = "poll"
    /\ \E runs \in RunLists :
          /\ noRunsYet \/ Len(runs) > 0
          /\ checkRuns' = runs
          /\ noRunsYet' = (noRunsYet /\ Len(runs) = 0)
          /\ LET v == verdict(runs, elapsed)
             IN  CASE v = "pass" ->
                        /\ ciResult' = [passed |-> TRUE, error |-> "none"]
                        /\ ciPc' = "done"
                   [] v = "fail" ->
                        /\ ciResult' = [passed |-> FALSE, error |-> "CI failed"]
                        /\ ciPc' = "done"
                   [] v = "continue" /\ timedOut(elapsed) ->
                        /\ ciResult' = [passed |-> FALSE, error |-> "Timed out"]
                        /\ ciPc' = "done"
                   [] v = "continue" /\ ~timedOut(elapsed) ->
                        /\ ciPc' = "sleep"
                        /\ UNCHANGED ciResult
    /\ UNCHANGED elapsed

\* the sleep between two polls
SleepChecks ==
    /\ ciPc = "sleep"
    /\ elapsed' = elapsed + POLL_INTERVAL
    /\ ciPc' = "poll"
    /\ UNCHANGED <<checkRuns, noRunsYet, ciResult>>

\* the overall timeout is noticed before the poll that would follow it
TimeOutChecks ==
    /\ ciPc = "poll"
    /\ timedOut(elapsed)
    /\ ciResult' = [passed |-> FALSE, error |-> "Timed out"]
    /\ ciPc' = "done"
    /\ UNCHANGED <<elapsed, checkRuns, noRunsYet>>

\* ================================================ tools/handlers.ts: handleTool
\* The handlers are not among the sources; they are modelled from the tool ABI
\* of the specification and from the calls of their test suite.
ToolUseIds == {"id4", "id5"}
EditTools == {"edit_file", "create_file", "delete_file"}
ReadTools == {"read_file", "grep_search", "file_search", "list_directory", "git_diff"}

NoToolUse == [name |-> "none", id |-> "none"]
NoOutcome == [ok |-> TRUE, text |-> <<>>]
NoToolResult == [type |-> "none"]

InitTools ==
    /\ toolUse = NoToolUse
    /\ toolOutcome = NoOutcome
    /\ toolResult = NoToolResult

\* the operation of a tool on the edit ABI
OperationOf(name, op) ==
    CASE name = "edit_file" -> op.type = "replace"
      [] name = "create_file" -> op.type = "create"
      [] name = "delete_file" -> op.type = "delete"

toolResultOf_NeverError(id, ended) ==
    [type |-> "tool_result", tool_use_id |-> id, content |-> ended.text]

\* the block a handler returns: is_error is set only for a failure
toolResultOf(id, ended) ==
    IF ended.ok
    THEN [type |-> "tool_result", tool_use_id |-> id, content |-> ended.text]
    ELSE [type |-> "tool_result", tool_use_id |-> id, content |-> ended.text,
          is_error |-> TRUE]

\* the handler ends: it returns the block whatever the operation did
Handled(name, id, ended) ==
    /\ toolUse' = [name |-> name, id |-> id]
    /\ toolOutcome' = ended
    /\ toolResult' = toolResultOf(id, ended)

\* edit_file, create_file, delete_file: applyEdits with the one operation
HandleEditTool ==
    /\ editPc = "idle"
    /\ \E name \in EditTools, id \in ToolUseIds, op \in Operations :
          /\ OperationOf(name, op)
          /\ LET content == files[op.filePath]
                 done == applied(op, content)
             IN  /\ operations' = <<op>>
                 /\ opIndex' = 2
                 /\ errors' = IF done.error = NoError_ THEN <<>> ELSE <<done.error>>
                 /\ lastEdit' = [op |-> op, before |-> content, error |-> done.error]
                 /\ attempted' = <<[op |-> op, before |-> content, after |-> done.updated,
                                    error |-> done.error]>>
                 /\ files' = [files EXCEPT ![op.filePath] = done.updated]
                 /\ editRet' = IF done.error = NoError_ THEN "applied"
                               ELSE "Edit operations failed"
                 /\ Handled(name, id,
                       IF done.error = NoError_
                       THEN [ok |-> TRUE, text |-> <<op.type, op.filePath>>]
                       ELSE [ok |-> FALSE, text |-> <<"Edit operations failed:", done.error>>])
    /\ UNCHANGED editPc

\* read_file, grep_search, file_search, list_directory, git_diff: the helper
\* resolves with a text or rejects with an error
HandleReadTool ==
    /\ \E name \in ReadTools, id \in ToolUseIds :
          \E ended \in { [ok |-> TRUE, text |-> <<"src/index.ts">>],
                           [ok |-> TRUE, text |-> <<>>],
                           [ok |-> FALSE, text |-> <<"ENOENT">>] } :
              Handled(name, id, ended)
    /\ UNCHANGED editVars

\* a tool the handler does not know, or arguments it cannot use
HandleUnknownTool ==
    /\ \E id \in ToolUseIds :
          Handled("unknown_tool", id, [ok |-> FALSE, text |-> <<"Unknown tool">>])
    /\ UNCHANGED editVars

\* ============================== tools/git.ts: createBranch; findOpenAgentPRs
\* Strings are sequences of characters.  A title is a short text written once
\* or many times over, so that titles longer than the cut are among them.
MaxTitleLen == 3
TitleChars == {"A", "b", " ", "!", "/"}
Repeats == {1, 31}

Repeated(text, n) == [i \in 1..(n * Len(text)) |-> text[((i - 1) % Len(text)) + 1]]

Titles ==
    { Repeated(text, n) : text \in UNION { [1..k -> TitleChars] : k \in 0..MaxTitleLen },
                          n \in Repeats }

\* 'seedgpt/'
AgentPrefix == <<"s", "e", "e", "d", "g", "p", "t", "/">>

\* head refs of pull requests opened by others: 'f/b', 'seedgpt', 'x/seedgpt/b'
ForeignRefs == { <<"f", "/", "b">>,
                 <<"s", "e", "e", "d", "g", "p", "t">>,
                 <<"x", "/">> \o AgentPrefix \o <<"b">> }

NoRef == <<"undefined">>
NotListed == {[ref |-> NoRef, by |-> "nobody"]}

InitBranches ==
    /\ brPc = "idle"
    /\ humanTitle = <<>>
    /\ branchRef = NoRef
    /\ pulls = {}
    /\ agentPRs = NotListed

\* String.prototype.toLowerCase, on the characters of a title
toLowerCase(text) == [i \in DOMAIN text |-> IF text[i] = "A" THEN "a" ELSE text[i]]

Whitespace == {" "}

\* .replace(/\s+/g, '-'): each run of whitespace becomes one dash.  Of a run
\* only the first character is kept, and written as a dash.
dashed(text) ==
    LET kept == SelectSeq([i \in DOMAIN text |-> i],
                          LAMBDA i : ~(text[i] \in Whitespace /\ i > 1
                                       /\ text[i - 1] \in Whitespace))
    IN  [k \in DOMAIN kept |-> IF text[kept[k]] \in Whitespace THEN "-" ELSE text[kept[k]]]

\* the class [a-z0-9-/]
BranchChars ==
    {"a", "b", "c", "d", "e", "f", "g", "h", "i", "j", "k", "l", "m", "n", "o", "p", "q",
     "r", "s", "t", "u", "v", "w", "x", "y", "z",
     "0", "1", "2", "3", "4", "5", "6", "7", "8", "9", "-", "/"}

\* .replace(/[^a-z0-9-/]/g, '')
stripped(text) == SelectSeq(text, LAMBDA c : c \in BranchChars)

sliceTo_Whole(text, end) == text

\* .slice(0, end)
sliceTo(text, end) == SubSeq(text, 1, Min(end, Len(text)))

\* line 29
branchNameOf(text) == AgentPrefix \o sliceTo(stripped(dashed(toLowerCase(text))), 60)

\* lines 27-33: getClient may throw and checkoutLocalBranch may reject
CreateBranchRef ==
    /\ brPc = "idle"
    /\ \E text \in Titles :
          /\ humanTitle' = text
          /\ \/ /\ branchRef' = branchNameOf(text)
                /\ brPc' = "created"
             \/ /\ brPc' = "threw"
                /\ UNCHANGED branchRef
    /\ UNCHANGED <<pulls, agentPRs>>

\* a pull request opened by someone else
OpenForeignPR ==
    /\ \E ref \in ForeignRefs :
          /\ [ref |-> ref, by |-> "other"] \notin pulls
          /\ pulls' = pulls \cup {[ref |-> ref, by |-> "other"]}
    /\ UNCHANGED <<brPc, humanTitle, branchRef, agentPRs>>

\* openPR(branch, ...) with the name createBranch returned
OpenBranchPR ==
    /\ brPc = "created"
    /\ pulls' = pulls \cup {[ref |-> branchRef, by |-> "agent"]}
    /\ brPc' = "opened"
    /\ UNCHANGED <<humanTitle, branchRef, agentPRs>>

startsWith(text, prefix) ==
    Len(text) >= Len(prefix) /\ SubSeq(text, 1, Len(prefix)) = prefix

\* the open pull requests whose head ref starts with the agent prefix
findOpenAgentPRs(open) == { pr \in open : startsWith(pr.ref, AgentPrefix) }

FindOpenAgentPRs ==
    /\ agentPRs # findOpenAgentPRs(pulls)
    /\ agentPRs' = findOpenAgentPRs(pulls)
    /\ UNCHANGED <<brPc, humanTitle, branchRef, pulls>>

\* ====================================================== agents/memory.ts
\* values of config.memoryTokenBudget
Budgets == {0, 9, 13, 16, 24, 25, 27, 30, 39, 60}
\* lengths of the summaries summarizeMemory returns
SummaryLens == {4, 40}
\* lengths of the ideaContext argument of storeIdea ('' is falsy)
IdeaContextLens == {0, 7}
\* the summaries and idea contexts of the documents the operations below create
StoredSummaryLens == {12}
StoredContextLens == {7}
\* the queries of recall, and the contents stored (each matches itself)
Queries == {"outcome", "goal", "idea"}

\* the length of an ObjectId in a template string (24 hex digits), and of
\* toISOString().slice(0, 19)
IdLen == Len("65f1c0ffee0123456789abcd")
DateLen == Len("2026-01-01 00:00:00")

NoStatus == "undefined"
NoId == 0
MemIdle == [op |-> "none", id |-> NoId, ret |-> "none"]

InitMem ==
    /\ store = <<>>
    /\ made = <<>>
    /\ completedOnce = {}
    /\ memRet = MemIdle

\* the document MemoryModel.create inserts (pinned defaults to false)
MemoryDoc(content, summaryLen, pinned, ideaStatus, ideaContextLen) ==
    [content |-> content, summaryLen |-> summaryLen, pinned |-> pinned,
     ideaStatus |-> ideaStatus, ideaContextLen |-> ideaContextLen]

\* The documents a store can hold: notes, past memories (a dismissed note is
\* one), ideas still pinned, and ideas no longer pinned.
Docs ==
    { MemoryDoc("goal", n, TRUE, NoStatus, 0) : n \in SummaryLens }
    \cup { MemoryDoc("outcome", n, FALSE, NoStatus, 0) : n \in SummaryLens }
    \cup { MemoryDoc("idea", 4, TRUE, st, c) :
              st \in {"pending", "attempted"}, c \in IdeaContextLens }
    \cup { MemoryDoc("idea", 4, FALSE, "completed", 7) }

MadeBy(doc) ==
    CASE doc.content = "goal" -> "storePinnedMemory"
      [] doc.content = "idea" -> "storeIdea"
      [] OTHER -> "storePastMemory"

\* a store of up to MaxDocs documents, as earlier operations left it
InitContext ==
    /\ store \in UNION { [1..k -> Docs] : k \in 0..MaxDocs }
    /\ made = [id \in DOMAIN store |-> MadeBy(store[id])]
    /\ completedOnce = { id \in DOMAIN store : store[id].ideaStatus = "completed" }
    /\ memRet = MemIdle
    /\ InitLoop
    /\ ApiIdle
    /\ EditsIdle
    /\ InitChecks
    /\ InitParams
    /\ InitTools
    /\ InitBranches

MemReturns(op, id, ret) == memRet' = [op |-> op, id |-> id, ret |-> ret]

\* summarizeMemory or MemoryModel.create / findById / save rejects
MemThrows(op) ==
    /\ MemReturns(op, NoId, "threw")
    /\ UNCHANGED <<store, made, completedOnce>>

\* summarizeMemory, then MemoryModel.create
Creates(op, doc, ret) ==
    /\ Len(store) < MaxItems
    /\ store' = Append(store, doc)
    /\ made' = Append(made, op)
    /\ MemReturns(op, Len(store) + 1, ret)
    /\ UNCHANGED completedOnce

\* lines 12-16
MemStorePast ==
    \/ \E n \in StoredSummaryLens :
          Creates("storePastMemory", MemoryDoc("outcome", n, FALSE, NoStatus, 0), "void")
    \/ MemThrows("storePastMemory")

\* lines 18-23
StorePinnedMemory ==
    \/ \E n \in StoredSummaryLens :
          Creates("storePinnedMemory", MemoryDoc("goal", n, TRUE, NoStatus, 0), "Note saved")
    \/ MemThrows("storePinnedMemory")

\* lines 193-204
StoreIdea ==
    \/ \E n \in StoredSummaryLens, c \in StoredContextLens :
          Creates("storeIdea", MemoryDoc("idea", n, TRUE, "pending", c), "Idea saved")
    \/ MemThrows("storeIdea")

Unpinned_Still(m) == m

\* memory.pinned = false
Unpinned(m) == [m EXCEPT !.pinned = FALSE]

\* lines 25-33
UnpinMemory ==
    \/ \E id \in 1..MaxItems :
        IF id \notin DOMAIN store
        THEN /\ MemReturns("unpinMemory", id, "No note found")
             /\ UNCHANGED <<store, made, completedOnce>>
        ELSE IF ~store[id].pinned
        THEN /\ MemReturns("unpinMemory", id, "That memory is not a note.")
             /\ UNCHANGED <<store, made, completedOnce>>
        ELSE /\ store' = [store EXCEPT ![id] = Unpinned(@)]
             /\ MemReturns("unpinMemory", id, "Note dismissed")
             /\ UNCHANGED <<made, completedOnce>>
    \/ MemThrows("unpinMemory")

WithStatus_DropsContext(m, newStatus) ==
    [m EXCEPT !.ideaStatus = newStatus,
              !.pinned = IF newStatus = "completed" THEN FALSE ELSE @,
              !.ideaContextLen = 0]

\* lines 211-216
WithStatus(m, newStatus) ==
    [m EXCEPT !.ideaStatus = newStatus,
              !.pinned = IF newStatus = "completed" THEN FALSE ELSE @]

\* lines 206-221
UpdateIdeaStatus ==
    \/ \E id \in 1..MaxItems, newStatus \in {"attempted", "completed"} :
        IF id \notin DOMAIN store
        THEN /\ MemReturns("updateIdeaStatus", id, "No memory found")
             /\ UNCHANGED <<store, made, completedOnce>>
        ELSE IF store[id].ideaStatus = NoStatus
        THEN /\ MemReturns("updateIdeaStatus", id, "is not an idea")
             /\ UNCHANGED <<store, made, completedOnce>>
        ELSE /\ store' = [store EXCEPT ![id] = WithStatus(@, newStatus)]
             /\ completedOnce' = IF newStatus = "completed"
                                 THEN completedOnce \cup {id} ELSE completedOnce
             /\ MemReturns("updateIdeaStatus", id, "Idea marked as " \o newStatus)
             /\ UNCHANGED made
    \/ MemThrows("updateIdeaStatus")

\* lines 37-39: Math.ceil(text.length / 4), on the length of the text
estimateTokens(len) == (len + 3) \div 4

OldestFirst(S) ==
    [i \in 1..Cardinality(S) |-> CHOOSE x \in S : Cardinality({y \in S : y < x}) = i - 1]

\* .sort({ createdAt: -1 }): _ids are handed out in creation order
NewestFirst(S) ==
    [i \in 1..Cardinality(S) |-> CHOOSE x \in S : Cardinality({y \in S : y > x}) = i - 1]

RECURSIVE Sum(_)
Sum(q) == IF q = <<>> THEN 0 ELSE Head(q) + Sum(Tail(q))

\* the length of lines.join(sep) for lines of the given lengths
JoinLen(lens, sepLen) ==
    IF lens = <<>> THEN 0 ELSE Sum(lens) + sepLen * (Len(lens) - 1)

\* line 63: `- (${m._id}) ${m.summary}`
NoteLineLen(m) == Len("- (") + IdLen + Len(") ") + m.summaryLen

\* lines 72-74: `- ${statusBadge} (${m._id}) ${m.summary}${context}`; the separator
\* before the context is a space, a dash and a space
IdeaLineLen(m) ==
    Len("- ")
    + (IF m.ideaStatus = "pending" THEN Len("[PENDING]") ELSE Len("[ATTEMPTED]"))
    + Len(" (") + IdLen + Len(") ") + m.summaryLen
    + (IF m.ideaContextLen > 0 THEN Len(" - ") + m.ideaContextLen ELSE 0)

\* line 98: `- (${m._id}) [${date}] ${m.summary}`
PastLineLen(m) == Len("- (") + IdLen + Len(") [") + DateLen + Len("] ") + m.summaryLen

\* lines 50-57
PinnedMemories(st) == NewestFirst({ id \in DOMAIN st : st[id].pinned })
NotesOf(st) == SelectSeq(PinnedMemories(st), LAMBDA id : st[id].ideaStatus = NoStatus)
IdeasOf(st) == SelectSeq(PinnedMemories(st), LAMBDA id : st[id].ideaStatus # NoStatus)

\* lines 86-90: find({ pinned: false, ideaStatus: { $exists: false } })
Recent(st) ==
    NewestFirst({ id \in DOMAIN st : ~st[id].pinned /\ st[id].ideaStatus = NoStatus })

\* lines 62-64 and 70-76: the length of a section
NotesSectionLen(st) ==
    Len("## Notes to self\n")
    + JoinLen([i \in DOMAIN NotesOf(st) |-> NoteLineLen(st[NotesOf(st)[i]])], Len("\n"))
IdeasSectionLen(st) ==
    Len("## Ideas\n")
    + JoinLen([i \in DOMAIN IdeasOf(st) |-> IdeaLineLen(st[IdeasOf(st)[i]])], Len("\n"))

IdeasFit_Always(tokensUsed, ideasTokens, budget) == TRUE

\* line 78
IdeasFit(tokensUsed, ideasTokens, budget) == tokensUsed + ideasTokens <= budget

OverBudget_IgnoresUsed(tokensUsed, pastTokens, lineTokens, budget) ==
    pastTokens + lineTokens > budget

\* line 100
OverBudget(tokensUsed, pastTokens, lineTokens, budget) ==
    tokensUsed + pastTokens + lineTokens > budget

RECURSIVE PastScan_Skipping(_, _, _, _, _, _)
PastScan_Skipping(st, recent, tokensUsed, budget, pastTokens, lines) ==
    IF recent = <<>> THEN [lines |-> lines, pastTokens |-> pastTokens]
    ELSE LET lineTokens == estimateTokens(PastLineLen(st[Head(recent)]) + Len("\n"))
         IN  IF OverBudget(tokensUsed, pastTokens, lineTokens, budget)
             THEN PastScan_Skipping(st, Tail(recent), tokensUsed, budget, pastTokens, lines)
             ELSE PastScan_Skipping(st, Tail(recent), tokensUsed, budget,
                                    pastTokens + lineTokens, Append(lines, Head(recent)))

\* lines 96-103: the loop over `recent`, from the state (pastTokens, lines)
RECURSIVE PastScan(_, _, _, _, _, _)
PastScan(st, recent, tokensUsed, budget, pastTokens, lines) ==
    IF recent = <<>> THEN [lines |-> lines, pastTokens |-> pastTokens]
    ELSE LET lineTokens == estimateTokens(PastLineLen(st[Head(recent)]) + Len("\n"))
         IN  IF OverBudget(tokensUsed, pastTokens, lineTokens, budget)
             THEN [lines |-> lines, pastTokens |-> pastTokens]
             ELSE PastScan(st, Tail(recent), tokensUsed, budget,
                           pastTokens + lineTokens, Append(lines, Head(recent)))

Section(name, ids, len) == [name |-> name, ids |-> ids, len |-> len]

\* lines 45-115.  The value returned is described by its sections (name, the
\* _ids listed, length), the length of the whole text, and the counters of the
\* function when it returns.
getContext(st, budget) ==
    LET notes == NotesOf(st)
        ideas == IdeasOf(st)
        notesTokens == IF notes # <<>> THEN estimateTokens(NotesSectionLen(st)) ELSE 0
        sections1 == IF notes # <<>>
                     THEN <<Section("## Notes to self", notes, NotesSectionLen(st))>>
                     ELSE <<>>
        ideasTokens == estimateTokens(IdeasSectionLen(st))
        ideasIn == ideas # <<>> /\ IdeasFit(notesTokens, ideasTokens, budget)
        tokensUsed == IF ideasIn THEN notesTokens + ideasTokens ELSE notesTokens
        sections2 == IF ideasIn
                     THEN Append(sections1, Section("## Ideas", ideas, IdeasSectionLen(st)))
                     ELSE sections1
        remaining == budget - tokensUsed
        scan == IF remaining > 0
                THEN PastScan(st, Recent(st), tokensUsed, budget,
                              estimateTokens(Len("## Past\n")), <<>>)
                ELSE [lines |-> <<>>, pastTokens |-> 0]
        pastLen == Len("## Past\n")
                   + JoinLen([i \in DOMAIN scan.lines |-> PastLineLen(st[scan.lines[i]])],
                             Len("\n"))
        sections == IF scan.lines # <<>>
                    THEN Append(sections2, Section("## Past", scan.lines, pastLen))
                    ELSE sections2
    IN  [op |-> "getContext", id |-> NoId, ret |-> "context",
         budget |-> budget,
         sections |-> sections,
         len |-> IF sections = <<>>
                 THEN Len("No memories yet. This is your first run.")
                 ELSE JoinLen([i \in DOMAIN sections |-> sections[i].len], Len("\n\n")),
         tokensUsed |-> tokensUsed,
         pastTokens |-> scan.pastTokens]

\* lines 45-46: the budget is read from the configuration at each call
GetMemoryContext ==
    \/ /\ \E budget \in Budgets : memRet' = getContext(store, budget)
       /\ UNCHANGED <<store, made, completedOnce>>
    \/ MemThrows("getContext")

\* .limit(5)
RecallLimit == 5

\* the documents a query matches, by the text index or by the regular expression
Matches(st, query) == { id \in DOMAIN st : st[id].content = query }

\* lines 120-142: the _ids recall may list: every match when at most RecallLimit
\* documents match, else RecallLimit of them (the order of equal scores is the
\* store's)
recall(st, query) ==
    { S \in SUBSET Matches(st, query) :
        Cardinality(S) = Min(RecallLimit, Cardinality(Matches(st, query))) }

\* lines 144-150
recallById(st, id) ==
    IF id \in DOMAIN st
    THEN [op |-> "recallById", id |-> id, ret |-> st[id].content]
    ELSE [op |-> "recallById", id |-> id, ret |-> "No memory with id"]

RecallById ==
    \/ /\ \E id \in 1..MaxItems : memRet' = recallById(store, id)
       /\ UNCHANGED <<store, made, completedOnce>>
    \/ MemThrows("recallById")

Recall ==
    \/ /\ \E query \in Queries : \E S \in recall(store, query) :
            memRet' = [op |-> "recall", id |-> NoId,
                       ret |-> IF S = {} THEN "No memories matching" ELSE query,
                       ids |-> S]
       /\ UNCHANGED <<store, made, completedOnce>>
    \/ MemThrows("recall")

\* ------------------------------------------------------- specifications
\* the calls of iterate() that go through callApi
LlmOps == {"plan", "createPatch", "fixPatch", "reflect", "storePastMemory"}

\* What the LLM calls behind the step just taken did to the gateway, as the
\* controller's specification sees it.  A call that resolved had callApi return,
\* so recordGenerated built a document with iterationId: activeIterationId; so
\* had a storePastMemory that failed in MemoryModel.create, after summarizeMemory.
\* A storePastMemory whose single callApi threw built none.  plan, createPatch,
\* fixPatch and reflect hold a dialogue of several calls: when they throw, an
\* earlier call of the dialogue may or may not have returned.
CallsGateway ==
    LET ev == trace'[Len(trace')]
        stamp == stamped' = [stamped EXCEPT ![iter] = @ \cup {activeIterationId}]
    IN  IF ev.res # "threw"
        THEN stamp
        ELSE IF ev.op = "storePastMemory"
        THEN IF pending'.kind = "StorageUnavailable" THEN stamp ELSE UNCHANGED stamped
        ELSE stamp \/ UNCHANGED stamped

Init == InitLoop /\ ApiIdle /\ InitMem /\ EditsIdle /\ InitChecks /\ InitParams /\ InitTools /\ InitBranches

Next ==
    \/ ConnectToDatabase /\ UNCHANGED <<outsideLoop, stamped>>
    \/ CleanupStalePRs /\ UNCHANGED <<outsideLoop, stamped>>
    \/ CloneRepo /\ UNCHANGED <<outsideLoop, stamped>>
    \/ While /\ UNCHANGED <<outsideLoop, stamped>>
    \/ Return /\ UNCHANGED <<outsideLoop, stamped>>
    \/ Throw /\ UNCHANGED <<outsideLoop, stamped>>
    \/ Catch /\ UNCHANGED <<outsideLoop, stamped>>
    \/ Finally /\ UNCHANGED <<outsideLoop, stamped>>
    \/ SnapshotCodebase /\ UNCHANGED <<outsideLoop, stamped>>
    \/ GetContext /\ UNCHANGED <<outsideLoop, stamped>>
    \/ GetRecentLog /\ UNCHANGED <<outsideLoop, stamped>>
    \/ Plan /\ CallsGateway /\ UNCHANGED outsideLoop
    \/ StorePlanned /\ CallsGateway /\ UNCHANGED outsideLoop
    \/ CreateBranch /\ UNCHANGED <<outsideLoop, stamped>>
    \/ CreatePatch /\ CallsGateway /\ UNCHANGED outsideLoop
    \/ CommitAndPush /\ UNCHANGED <<outsideLoop, stamped>>
    \/ OpenPR /\ UNCHANGED <<outsideLoop, stamped>>
    \/ AwaitChecks /\ UNCHANGED <<outsideLoop, stamped>>
    \/ StoreCiFailed /\ CallsGateway /\ UNCHANGED outsideLoop
    \/ FixPatch /\ CallsGateway /\ UNCHANGED outsideLoop
    \/ CommitFix /\ UNCHANGED <<outsideLoop, stamped>>
    \/ MergePR /\ UNCHANGED <<outsideLoop, stamped>>
    \/ DeleteBranchMerged /\ UNCHANGED <<outsideLoop, stamped>>
    \/ StoreMerged /\ CallsGateway /\ UNCHANGED outsideLoop
    \/ GetCoverage /\ UNCHANGED <<outsideLoop, stamped>>
    \/ StoreCoverage /\ CallsGateway /\ UNCHANGED outsideLoop
    \/ ResetWorkspace /\ UNCHANGED <<outsideLoop, stamped>>
    \/ ClosePR /\ UNCHANGED <<outsideLoop, stamped>>
    \/ DeleteBranchClosed /\ UNCHANGED <<outsideLoop, stamped>>
    \/ StoreClosed /\ CallsGateway /\ UNCHANGED outsideLoop
    \/ StoreGaveUp /\ CallsGateway /\ UNCHANGED outsideLoop
    \/ Reflect /\ CallsGateway /\ UNCHANGED outsideLoop
    \/ StoreReflection /\ CallsGateway /\ UNCHANGED outsideLoop
    \/ WriteIterationLog /\ UNCHANGED <<outsideLoop, stamped>>

Spec == Init /\ [][Next]_vars

NextApi ==
    \/ SetIterationId /\ UNCHANGED outsideApi
    \/ CallApi /\ UNCHANGED outsideApi
    \/ BatchCreate /\ UNCHANGED outsideApi
    \/ SleepAndPoll /\ UNCHANGED outsideApi
    \/ ReadResults /\ UNCHANGED outsideApi
    \/ RecordGenerated /\ UNCHANGED outsideApi

InitGateway == InitApi /\ InitLoop /\ InitMem /\ EditsIdle /\ InitChecks /\ InitParams /\ InitTools /\ InitBranches

SpecApi == InitGateway /\ [][NextApi]_vars

\* callApi under a scheduler that resumes it: every await of the call settles
PollingSteps == BatchCreate \/ SleepAndPoll \/ ReadResults \/ RecordGenerated

NextCall ==
    \/ CallApi /\ UNCHANGED outsideApi
    \/ BatchCreate /\ UNCHANGED outsideApi
    \/ SleepAndPoll /\ UNCHANGED outsideApi
    \/ ReadResults /\ UNCHANGED outsideApi
    \/ RecordGenerated /\ UNCHANGED outsideApi

SpecApiFair ==
    /\ InitGateway
    /\ [][NextCall]_vars
    /\ WF_vars(PollingSteps /\ UNCHANGED outsideApi)

NextMemory ==
    \/ MemStorePast /\ UNCHANGED outsideMemory
    \/ StorePinnedMemory /\ UNCHANGED outsideMemory
    \/ StoreIdea /\ UNCHANGED outsideMemory
    \/ UnpinMemory /\ UNCHANGED outsideMemory
    \/ UpdateIdeaStatus /\ UNCHANGED outsideMemory
    \/ GetMemoryContext /\ UNCHANGED outsideMemory
    \/ RecallById /\ UNCHANGED outsideMemory
    \/ Recall /\ UNCHANGED outsideMemory

InitMemory == InitMem /\ InitLoop /\ ApiIdle /\ EditsIdle /\ InitChecks /\ InitParams /\ InitTools /\ InitBranches

SpecMemory == InitMemory /\ [][NextMemory]_vars

\* getContext applied once to a store the operations can leave behind
NextContext == memRet = MemIdle /\ GetMemoryContext /\ UNCHANGED outsideMemory

SpecContext == InitContext /\ [][NextContext]_vars

NextEdits ==
    \/ ApplyEdits /\ UNCHANGED outsideEdits
    \/ ApplyOperation /\ UNCHANGED outsideEdits
    \/ EditsDone /\ UNCHANGED outsideEdits

InitWorkspace == InitEdits /\ InitLoop /\ ApiIdle /\ InitMem /\ InitChecks /\ InitParams /\ InitTools /\ InitBranches

SpecEdits == InitWorkspace /\ [][NextEdits]_vars

NextValidatedEdits ==
    \/ ApplyValidatedEdits /\ UNCHANGED outsideEdits
    \/ ApplyOperation /\ UNCHANGED outsideEdits
    \/ EditsDone /\ UNCHANGED outsideEdits

InitValidated == InitEdits /\ InitLoop /\ ApiIdle /\ InitMem /\ InitChecks /\ InitParams /\ InitTools /\ InitBranches

SpecValidatedEdits == InitValidated /\ [][NextValidatedEdits]_vars

NextParams ==
    \/ BuildParams /\ UNCHANGED outsideParams
    \/ PrepareContext /\ UNCHANGED outsideParams
    \/ SystemBase /\ UNCHANGED outsideParams
    \/ SystemCoverage /\ UNCHANGED outsideParams
    \/ SystemGitLog /\ UNCHANGED outsideParams
    \/ SystemMemory /\ UNCHANGED outsideParams
    \/ SystemUnused /\ UNCHANGED outsideParams
    \/ ReturnParams /\ UNCHANGED outsideParams

InitRequest == InitParams /\ InitLoop /\ ApiIdle /\ InitMem /\ EditsIdle /\ InitChecks /\ InitTools /\ InitBranches

SpecParams == InitRequest /\ [][NextParams]_vars

NextTools ==
    \/ HandleEditTool /\ UNCHANGED outsideTools
    \/ HandleReadTool /\ UNCHANGED outsideTools
    \/ HandleUnknownTool /\ UNCHANGED outsideTools

InitHandlers == InitTools /\ InitEdits /\ InitLoop /\ ApiIdle /\ InitMem /\ InitChecks /\ InitParams /\ InitBranches

SpecTools == InitHandlers /\ [][NextTools]_vars

NextBranches ==
    \/ CreateBranchRef /\ UNCHANGED outsideBranches
    \/ OpenForeignPR /\ UNCHANGED outsideBranches
    \/ OpenBranchPR /\ UNCHANGED outsideBranches
    \/ FindOpenAgentPRs /\ UNCHANGED outsideBranches

InitForge == InitBranches /\ InitLoop /\ ApiIdle /\ InitMem /\ EditsIdle /\ InitChecks /\ InitParams /\ InitTools

SpecBranches == InitForge /\ [][NextBranches]_vars

NextChecks ==
    \/ AwaitPRChecks /\ UNCHANGED outsideChecks
    \/ PollChecks /\ UNCHANGED outsideChecks
    \/ SleepChecks /\ UNCHANGED outsideChecks
    \/ TimeOutChecks /\ UNCHANGED outsideChecks

InitCi == InitChecks /\ InitLoop /\ ApiIdle /\ InitMem /\ EditsIdle /\ InitParams /\ InitTools /\ InitBranches

SpecChecks == InitCi /\ [][NextChecks]_vars

\* the timers fire and the forge answers: a call in progress goes on
SpecChecksFair ==
    /\ InitCi
    /\ [][NextChecks]_vars
    /\ WF_vars((PollChecks \/ SleepChecks \/ TimeOutChecks) /\ UNCHANGED outsideChecks)

\* ================================================================ claims
\* pcs of iterate() after the try/finally statement
PostTry == {"throw", "closePR", "deleteBranchClosed", "storeClosed", "storeGaveUp",
            "reflect", "storeReflection", "writeIterationLog", "return"}
FailedChecks == Count(trace, Ev("awaitChecks", "failed"))
HasMemory(kind) == \E n \in 1..Len(memories) : memories[n].kind = kind /\ memories[n].iter = iter

\* C1 -- Merge gating.  In every iteration mergePR is called only after an
\* awaitChecks call of that iteration resolved with passed = true, with no other
\* awaitChecks call and no fixPatch call between that result and the merge; a
\* "Merged PR #N" memory exists only once mergePR has completed for that PR.
C1_MergeGating ==
    /\ \A i \in 1..Len(trace) : trace[i].op = "mergePR" =>
          \E j \in 1..(i - 1) :
              /\ trace[j] = Ev("awaitChecks", "passed")
              /\ \A k \in (j + 1)..(i - 1) : trace[k].op \notin {"awaitChecks", "fixPatch"}
    /\ \A n \in 1..Len(memories) : memories[n].kind = "Merged PR" =>
          /\ Ev("mergePR", "ok") \in Range(trace)
          /\ memories[n].pr = prNumber
          /\ prState[prNumber] = "merged"

C1_Witness ==
    /\ HasMemory("Merged PR")
    /\ Ev("awaitChecks", "failed") \in Range(trace)
    /\ Called("fixPatch")

C3_ResetWorkspaceAlways ==
    /\ Calls("resetWorkspace") <= 1
    /\ itPc \in PostTry => Calls("resetWorkspace") = 1
    /\ (itPc = "idle" /\ iter > 0) => Calls("resetWorkspace") = 1
    /\ itPc \notin PostTry \cup {"idle"} => Calls("resetWorkspace") = 0
    /\ \A i \in 1..Len(trace) : trace[i].op \in {"closePR", "reflect"} =>
          \E j \in 1..(i - 1) : trace[j].op = "resetWorkspace"

C3_Witness ==
    /\ itPc = "throw"
    /\ pending.op = "mergePR"
    /\ Calls("resetWorkspace") = 1

\* C4 -- Failure recovery (as claimed).  An LLM batch failure or a git failure in
\* a step of an iteration never leaves iterate as an exception: the iteration
\* has an outcome, reflect is called, and iterate returns false to run()'s loop.
C4_FailureRecovery ==
    pending.kind \in {"LlmBatchFailed", "GitOperation"} =>
        /\ itPc # "throw"
        /\ itPc = "idle" =>
              /\ runPc = "while"
              /\ ~runMerged
              /\ Called("reflect")
              /\ outcome # NoText

\* C5 -- Outer driver.  run() has at most one iterate() in progress and starts
\* the next one only after the previous returned false (each returned iteration
\* has written its log); it leaves the loop normally only after an iterate call
\* returned true; iterate returns true only if the last awaitChecks passed and
\* mergePR completed for the PR opened in that iteration.
C5_OuterDriver ==
    /\ active \in {0, 1}
    /\ (active = 1) = (runPc = "iterate")
    /\ (itPc # "idle") = (runPc = "iterate")
    /\ runPc = "iterate" => /\ iter >= 1
                            /\ ~runMerged
                            /\ Len(logs) \in {iter - 1, iter}
    /\ \A k \in 1..Len(logs) : logs[k] = k
    /\ (runPc = "while" /\ iter > 0) => runMerged = merged
    /\ (runPc \in {"finally", "exit"} /\ caught = NoErr /\ dbConnected) => runMerged
    /\ ((itPc = "return" /\ merged) \/ runMerged) =>
          /\ Ev("mergePR", "ok") \in Range(trace)
          /\ result.passed
          /\ \A i \in 1..Len(trace) : trace[i].op = "awaitChecks" /\ trace[i].res # "passed" =>
                \E j \in (i + 1)..Len(trace) : trace[j] = Ev("awaitChecks", "passed")
          /\ prNumber # NoPr
          /\ prState[prNumber] = "merged"

C5_Witness ==
    /\ runPc = "exit"
    /\ exitErr = NoErr
    /\ iter = 2
    /\ runMerged

DisconnectCalls == CountOp(runTrace, "disconnectFromDatabase")
CrashStoreCalls == CountOp(runTrace, "storePastMemory")

\* what the catch clause of run() does once an error was caught
C8_CatchClause ==
    /\ runPc = "catch" => caught # NoErr
    /\ (itPc = "idle" /\ iter > 0 /\ pending # NoErr) => caught = pending
    /\ caught = NoErr => CrashStoreCalls = 0
    /\ (caught # NoErr /\ runPc \in {"finally", "exit"}) =>
          /\ CrashStoreCalls = 1
          /\ Ev("storePastMemory", "ok") \in Range(runTrace) =>
                \E n \in 1..Len(memories) :
                    /\ memories[n].kind = "Iteration crashed with error"
                    /\ memories[n].err = caught
          /\ runPc = "finally" => exitErr = caught
          /\ runPc = "exit" =>
                \/ exitErr = caught
                \/ /\ Ev("disconnectFromDatabase", "threw") \in Range(runTrace)
                   /\ exitErr.op = "disconnectFromDatabase"

\* C8 as claimed: ..., and disconnectFromDatabase is called on every exit path.
C8_Original ==
    /\ C8_CatchClause
    /\ runPc = "exit" => DisconnectCalls = 1

\* C8 as amended: if cleanupStalePRs, cloneRepo or an iteration throws, run()
\* attempts to store an "Iteration crashed with error: ..." memory; a failure of
\* that store is swallowed and the catch clause rethrows the original error;
\* disconnectFromDatabase is called exactly once on every exit path that follows
\* a successful connectToDatabase (an error it throws itself replaces the one in
\* flight).  If connectToDatabase throws, run() exits with that error, with no
\* crash memory attempted and no disconnectFromDatabase call.
C8_CrashReporting ==
    /\ C8_CatchClause
    /\ DisconnectCalls <= 1
    /\ runPc = "exit" => DisconnectCalls = (IF dbConnected THEN 1 ELSE 0)
    /\ (runPc = "exit" /\ ~dbConnected) =>
          /\ exitErr.op = "connectToDatabase"
          /\ runTrace = <<Ev("connectToDatabase", "threw")>>

C8_Witness ==
    /\ runPc = "exit"
    /\ caught.op = "mergePR"
    /\ Ev("storePastMemory", "threw") \in Range(runTrace)
    /\ exitErr = caught
    /\ DisconnectCalls = 1

\* C9 -- Record before consume (as claimed).  Whenever callApi has returned a
\* message, a GeneratedRecord of that exchange (its stripped response, written
\* during that call) is in the Generated collection.
C9_RecordBeforeConsume ==
    apiPc = "returned" =>
        \E n \in 1..Len(generated) :
            /\ generated[n].createdAt = apiCalls
            /\ generated[n].response = stripThinkingSignatures(apiRet.content)

\* C10 -- Batch failure.  If the first result of the ended batch is not
\* `succeeded`, callApi throws "Batch request failed: <detail>" (the error
\* object when errored, else the result type), returns no message and writes
\* no GeneratedRecord; if the results hold no entry, callApi throws as well;
\* and a message is returned only for a `succeeded` entry.
C10_BatchFailure ==
    /\ (resultsRead /\ entry # NoEntry /\ entry.type # "succeeded") =>
          /\ apiPc = "threw"
          /\ apiErr.message = "Batch request failed: "
          /\ apiErr.detail = (IF entry.type = "errored" THEN entry.error ELSE entry.type)
          /\ apiRet = NoMessage
          /\ \A n \in 1..Len(generated) : generated[n].createdAt # apiCalls
    /\ (resultsRead /\ entry = NoEntry) =>
          /\ apiPc = "threw"
          /\ apiErr # NoApiErr
          /\ apiRet = NoMessage
          /\ \A n \in 1..Len(generated) : generated[n].createdAt # apiCalls
    /\ apiPc = "returned" => /\ entry.type = "succeeded"
                             /\ apiRet = entry.message
                             /\ status = "ended"

C10_Witness ==
    /\ apiPc = "threw"
    /\ entry.type = "expired"
    /\ apiErr = [message |-> "Batch request failed: ", detail |-> "expired"]
    /\ Len(slept) = 2
    /\ Len(generated) = 1
\* the records created by the call in progress (createdAt is the call's number)
RecordsOfCall == { n \in 1..Len(generated) : generated[n].createdAt = apiCalls }

\* block `b` is block `a` without its signature field, every other field kept
WithoutSignature(a, b) ==
    /\ DOMAIN b = DOMAIN a \ {"signature"}
    /\ \A f \in DOMAIN b : b[f] = a[f]

\* C11 (signature stripping): no record in the Generated collection has a
\* thinking block with a signature field in its response.  The response stored
\* for a call is the returned message's content with only that field removed:
\* same number of blocks, same order, every thinking block with all its other
\* fields, and every block of another type exactly as it was returned, a
\* signature field of its own included.
C11_SignatureStripping ==
    /\ \A n \in 1..Len(generated) : \A i \in 1..Len(generated[n].response) :
          generated[n].response[i].type = "thinking" =>
              "signature" \notin DOMAIN generated[n].response[i]
    /\ apiPc = "returned" =>
          \A n \in RecordsOfCall :
              /\ Len(generated[n].response) = Len(apiRet.content)
              /\ \A i \in 1..Len(apiRet.content) :
                    IF apiRet.content[i].type = "thinking"
                    THEN WithoutSignature(apiRet.content[i], generated[n].response[i])
                    ELSE generated[n].response[i] = apiRet.content[i]

\* a record was created for a response holding a signed thinking block, an
\* unsigned one and a text block with a signature field
C11_Witness ==
    /\ apiPc = "returned"
    /\ RecordsOfCall # {}
    /\ apiRet.content = <<UnsignedThinkingBlock, SignedTextBlock, ThinkingBlock>>
    /\ \A n \in RecordsOfCall :
          generated[n].response = <<UnsignedThinkingBlock, SignedTextBlock,
                                    [type |-> "thinking", thinking |-> "plan the change"]>>

\* the positions of iterate() from its first LLM call to its last
LlmSpan == {"plan", "storePlanned", "createBranch", "createPatch", "commitAndPush",
            "openPR", "awaitChecks", "storeCiFailed", "fixPatch", "commitFix", "mergePR",
            "deleteBranchMerged", "storeMerged", "getCoverage", "storeCoverage",
            "resetWorkspace", "closePR", "deleteBranchClosed", "storeClosed",
            "storeGaveUp", "reflect", "storeReflection"}

\* C12 (iteration id): the id is set (non-empty) from before the first LLM call
\* of an iteration until its last and is empty when no iteration is running;
\* every record written during an iteration carries a non-empty id, and records
\* of different iterations carry different ids.
C12_IterationId ==
    /\ itPc \in LlmSpan => activeIterationId # ""
    /\ itPc = "idle" => activeIterationId = ""
    /\ \A n \in 1..MaxIterations : "" \notin stamped[n]
    /\ \A m, n \in 1..MaxIterations : m # n => stamped[m] \cap stamped[n] = {}

\* ---------------------------------------------------------- memory claims
Max(a, b) == IF a > b THEN a ELSE b

\* the last operation was getContext and it returned
IsContext == memRet.op = "getContext" /\ memRet.ret = "context"

\* the _ids a context lists under a header (none when the section is absent)
SectionsNamed(ctx, name) == { i \in DOMAIN ctx.sections : ctx.sections[i].name = name }
HasSection(ctx, name) == SectionsNamed(ctx, name) # {}
SectionOf(ctx, name) == ctx.sections[CHOOSE i \in SectionsNamed(ctx, name) : TRUE]
Listed(ctx, name) ==
    IF HasSection(ctx, name) THEN Range(SectionOf(ctx, name).ids) ELSE {}

\* a list of _ids runs from the newest to the oldest
Descending(ids) == \A i, j \in DOMAIN ids : i < j => ids[i] > ids[j]

NoteIds == { id \in DOMAIN store : store[id].pinned /\ store[id].ideaStatus = NoStatus }
IdeaIds == { id \in DOMAIN store :
               store[id].pinned /\ store[id].ideaStatus \in {"pending", "attempted"} }
PastIds == { id \in DOMAIN store : ~store[id].pinned /\ store[id].ideaStatus = NoStatus }

\* lengths and token estimates of whole sections, from the store
RECURSIVE SumOver(_, _)
SumOver(S, f) ==
    IF S = {} THEN 0 ELSE LET x == CHOOSE y \in S : TRUE IN f[x] + SumOver(S \ {x}, f)
NotesLen ==
    Len("## Notes to self\n") + SumOver(NoteIds, [id \in DOMAIN store |-> NoteLineLen(store[id])])
    + (Cardinality(NoteIds) - 1)
IdeasLen ==
    Len("## Ideas\n") + SumOver(IdeaIds, [id \in DOMAIN store |-> IdeaLineLen(store[id])])
    + (Cardinality(IdeaIds) - 1)
NotesTokens == IF NoteIds = {} THEN 0 ELSE (NotesLen + 3) \div 4
IdeasTokens == IF IdeaIds = {} THEN 0 ELSE (IdeasLen + 3) \div 4
PastLineTokens(id) == (PastLineLen(store[id]) + 1 + 3) \div 4
\* tokens of the notes and ideas sections a context contains
UsedBy(ctx) ==
    NotesTokens + (IF HasSection(ctx, "## Ideas") THEN IdeasTokens ELSE 0)
\* the running count of the Past loop after listing the _ids S
PastTokensOf(S) == 2 + SumOver(S, [id \in DOMAIN store |-> PastLineTokens(id)])

\* C13 (pin/idea invariant): every memory item with ideaStatus completed is
\* unpinned, and every item with ideaStatus pending or attempted that has never
\* been completed is pinned.
C13_PinIdeaInvariant ==
    \A id \in DOMAIN store :
        /\ store[id].ideaStatus = "completed" => ~store[id].pinned
        /\ (store[id].ideaStatus \in {"pending", "attempted"} /\ id \notin completedOnce)
              => store[id].pinned

\* the longest of the pinned blocks of a context: the notes section, the ideas
\* section (each at least as long as any single pinned line); 0 without pinned
\* items
LongestPinnedBlock == Max(NotesTokens, IdeasTokens)

\* C14 as stated (context budget): for every store and budget,
\* estimateTokens(getContext()) <= budget + estimateTokens(longest pinned block).
C14_Original ==
    IsContext =>
        (memRet.len + 3) \div 4 <= memRet.budget + LongestPinnedBlock

\* C14 (context budget, amended): when getContext returns at least one section,
\* the estimate of its text is at most max(budget + 1, estimate of the whole
\* notes section); the one token is the blank lines joining the sections.  With
\* no section it returns the 40-character first-run message, whatever the budget.
C14_ContextBudget ==
    IsContext =>
        IF memRet.sections = <<>>
        THEN memRet.len = Len("No memories yet. This is your first run.")
        ELSE (memRet.len + 3) \div 4 <= Max(memRet.budget + 1, NotesTokens)

\* three sections whose joined text is estimated one token above the budget
C14_Witness ==
    /\ IsContext
    /\ Len(memRet.sections) >= 2
    /\ (memRet.len + 3) \div 4 = memRet.budget + 1
    /\ NotesTokens <= memRet.budget

\* C15 (notes are never cut): for every budget, "## Notes to self" is the first
\* section exactly when there are pinned items without ideaStatus; it lists all
\* of them, newest first, each line in full.
C15_NotesNeverCut ==
    IsContext =>
        IF NoteIds = {}
        THEN ~HasSection(memRet, "## Notes to self")
        ELSE /\ memRet.sections # <<>>
             /\ memRet.sections[1].name = "## Notes to self"
             /\ Range(memRet.sections[1].ids) = NoteIds
             /\ Len(memRet.sections[1].ids) = Cardinality(NoteIds)
             /\ Descending(memRet.sections[1].ids)
             /\ memRet.sections[1].len = NotesLen

\* two notes are listed although the section alone exceeds the budget
C15_Witness ==
    /\ IsContext
    /\ Cardinality(NoteIds) >= 2
    /\ NotesTokens > memRet.budget
    /\ memRet.budget > 0
    /\ Listed(memRet, "## Notes to self") = NoteIds

\* the newest unpinned non-idea item a context does not list under "## Past"
FirstUnlisted(ctx) ==
    CHOOSE id \in PastIds \ Listed(ctx, "## Past") :
        \A other \in PastIds \ Listed(ctx, "## Past") : other <= id

NewestPast == CHOOSE id \in PastIds : \A other \in PastIds : other <= id

\* C16 (past section): "## Past" lists a prefix of the newest-first unpinned
\* non-idea items; the first item left out is one that would push notes + ideas
\* + past over the budget (or nothing of the budget remained); the running token
\* count of the section, and the estimate of its text, stay within the budget
\* left by notes and ideas; the section is absent exactly when nothing of the
\* budget remains, or there is no such item, or the newest does not fit.
C16_PastSection ==
    IsContext =>
        LET past == Listed(memRet, "## Past")
            used == UsedBy(memRet)
            remaining == memRet.budget - used
        IN  /\ past \subseteq PastIds
            /\ \A id \in past : \A newer \in PastIds : newer > id => newer \in past
            /\ HasSection(memRet, "## Past") =>
                  /\ Descending(SectionOf(memRet, "## Past").ids)
                  /\ Len(SectionOf(memRet, "## Past").ids) = Cardinality(past)
                  /\ past # {}
                  /\ PastTokensOf(past) <= remaining
                  /\ (SectionOf(memRet, "## Past").len + 3) \div 4 <= remaining
            /\ past # PastIds =>
                  \/ remaining <= 0
                  \/ used + PastTokensOf(past) + PastLineTokens(FirstUnlisted(memRet))
                        > memRet.budget
            /\ ~HasSection(memRet, "## Past") <=>
                  \/ remaining <= 0
                  \/ PastIds = {}
                  \/ used + 2 + PastLineTokens(NewestPast) > memRet.budget

\* the scan stopped at an item that does not fit although an older, shorter one
\* would have fitted
C16_Witness ==
    /\ IsContext
    /\ HasSection(memRet, "## Past")
    /\ \E older \in PastIds \ Listed(memRet, "## Past") :
          /\ older < FirstUnlisted(memRet)
          /\ UsedBy(memRet) + PastTokensOf(Listed(memRet, "## Past"))
                + PastLineTokens(older) <= memRet.budget

\* C17 (ideas are all or nothing): "## Ideas" is present exactly when there are
\* pinned ideas (pending or attempted) and the whole section fits in the budget
\* left by the notes; when present it lists all of them, newest first, in full;
\* when absent, only the notes count against the budget that "## Past" gets.
C17_IdeasAllOrNothing ==
    IsContext =>
        /\ HasSection(memRet, "## Ideas") <=>
              (IdeaIds # {} /\ NotesTokens + IdeasTokens <= memRet.budget)
        /\ HasSection(memRet, "## Ideas") =>
              /\ Range(SectionOf(memRet, "## Ideas").ids) = IdeaIds
              /\ Len(SectionOf(memRet, "## Ideas").ids) = Cardinality(IdeaIds)
              /\ Descending(SectionOf(memRet, "## Ideas").ids)
              /\ SectionOf(memRet, "## Ideas").len = IdeasLen
              /\ memRet.tokensUsed = NotesTokens + IdeasTokens
        /\ ~HasSection(memRet, "## Ideas") => memRet.tokensUsed = NotesTokens

\* the ideas did not fit and were left out; a past memory is listed that would
\* not have fitted had the ideas been charged
C17_Witness ==
    /\ IsContext
    /\ IdeaIds # {}
    /\ ~HasSection(memRet, "## Ideas")
    /\ HasSection(memRet, "## Past")
    /\ NotesTokens + IdeasTokens + PastTokensOf(Listed(memRet, "## Past")) > memRet.budget

\* unpinMemory has just dismissed a document
Dismissed == memRet.op = "unpinMemory" /\ memRet.ret = "Note dismissed"

\* C18 (store a note, then unpin it): once unpinMemory has dismissed a note made
\* by storePinnedMemory, the item is unpinned, recallById returns its content,
\* recall lists it for a query it matches (whenever at most RecallLimit items
\* match), and no getContext, for any budget, lists it in "## Notes to self".
C18_NoteThenUnpin ==
    /\ (Dismissed /\ made[memRet.id] = "storePinnedMemory") =>
          LET id == memRet.id
          IN  /\ ~store[id].pinned
              /\ recallById(store, id).ret = store[id].content
              /\ id \in Matches(store, store[id].content)
              /\ Cardinality(Matches(store, store[id].content)) <= RecallLimit =>
                    \A S \in recall(store, store[id].content) : id \in S
              /\ \A budget \in Budgets :
                    id \notin Listed(getContext(store, budget), "## Notes to self")
    /\ IsContext =>
          \A id \in DOMAIN store :
              (made[id] = "storePinnedMemory" /\ ~store[id].pinned)
                  => id \notin Listed(memRet, "## Notes to self")

\* a note has just been dismissed while another note stays pinned
C18_Witness ==
    /\ Dismissed
    /\ made[memRet.id] = "storePinnedMemory"
    /\ NoteIds # {}

\* updateIdeaStatus has just marked an idea completed
Completed_ == memRet.op = "updateIdeaStatus" /\ memRet.ret = "Idea marked as completed"

\* the store if document `id` were an ordinary past memory
AsPastMemory(id) == [store EXCEPT ![id] = [@ EXCEPT !.ideaStatus = NoStatus]]

\* C19 (store an idea, then complete it): once updateIdeaStatus(id, completed)
\* has returned for an idea made by storeIdea, no getContext lists the item in
\* "## Ideas", and every getContext whose budget would admit the item as a past
\* memory lists it in "## Past".
C19_IdeaThenComplete ==
    (Completed_ /\ made[memRet.id] = "storeIdea") =>
        \A budget \in Budgets :
            /\ memRet.id \notin Listed(getContext(store, budget), "## Ideas")
            /\ memRet.id \in Listed(getContext(AsPastMemory(memRet.id), budget), "## Past")
                  => memRet.id \in Listed(getContext(store, budget), "## Past")

\* ------------------------------------------------------------ edit claims
\* the indices (from 0) at which oldString occurs in a text
Occurrences(content, oldString) ==
    { i \in 0..(Len(content) - Len(oldString)) :
          SubSeq(content, i + 1, i + Len(oldString)) = oldString }

\* the loop has just attempted a replace on a file that exists
ReplaceAttempted ==
    /\ lastEdit.op.type = "replace"
    /\ lastEdit.before # Absent

\* C20 (single-match replace): a replace succeeds exactly when oldString occurs
\* at one index of the file, overlapping occurrences counted separately; the
\* file then is the text before that index, newString, and the text after the
\* match.  With no occurrence it fails as not found, with two or more as
\* ambiguous, and the file is unchanged.
C20_SingleMatchReplace ==
    ReplaceAttempted =>
        LET op == lastEdit.op
            before == lastEdit.before
            after == files[op.filePath]
            occ == Occurrences(before, op.oldString)
        IN  /\ (lastEdit.error = NoError_) <=> (Cardinality(occ) = 1)
            /\ Cardinality(occ) = 1 =>
                  LET i == CHOOSE i \in occ : TRUE
                  IN  after = SubSeq(before, 1, i) \o op.newString
                              \o SubSeq(before, i + Len(op.oldString) + 1, Len(before))
            /\ Cardinality(occ) = 0 =>
                  (lastEdit.error = "oldString not found in file" /\ after = before)
            /\ Cardinality(occ) >= 2 =>
                  (lastEdit.error = "oldString matches multiple locations" /\ after = before)

\* the same statement for a non-empty oldString
C20_NonEmptyOldString == (lastEdit.op.type = "replace" /\ lastEdit.op.oldString = <<>>) \/ C20_SingleMatchReplace

\* the text a replace leaves when oldString occurs once
Replaced(before, op) ==
    LET i == CHOOSE i \in Occurrences(before, op.oldString) : TRUE
    IN  SubSeq(before, 1, i) \o op.newString
        \o SubSeq(before, i + Len(op.oldString) + 1, Len(before))

\* the file a successful operation leaves
Effect(op, before) ==
    CASE op.type = "replace" -> Replaced(before, op)
      [] op.type = "create" -> op.content
      [] op.type = "delete" -> Absent

Failed(i) == attempted[i].error # NoError_

\* the last call of applyEdits has ended
EditsEnded == editPc = "idle" /\ editRet # "none"

\* what the turns so far leave at path p, starting from what the first turn on
\* p found there
LeftAt(p) ==
    LET on == { i \in DOMAIN attempted : attempted[i].op.filePath = p }
    IN  IF on = {} THEN files[p]
        ELSE attempted[CHOOSE i \in on : \A j \in on : j <= i].after

\* C21 (applyEdits error collection): the operations are attempted in list
\* order, each on the file its predecessors left, whether or not they failed;
\* a failed operation leaves its file alone and a successful one leaves its
\* effect; when the call ends every operation was attempted, it threw exactly
\* when one of them failed, and the effects of the others are on disk.
C21_ErrorCollection ==
    /\ editPc = "loop" => Len(attempted) = opIndex - 1
    /\ Len(attempted) <= Len(operations)
    /\ \A i \in DOMAIN attempted :
          /\ attempted[i].op = operations[i]
          /\ attempted[i].after =
                IF Failed(i) THEN attempted[i].before
                ELSE Effect(attempted[i].op, attempted[i].before)
          /\ \A j \in DOMAIN attempted :
                (j < i /\ attempted[j].op.filePath = attempted[i].op.filePath
                 /\ \A k \in (j + 1)..(i - 1) :
                       attempted[k].op.filePath # attempted[i].op.filePath)
                => attempted[i].before = attempted[j].after
    /\ Len(errors) = Cardinality({ i \in DOMAIN attempted : Failed(i) })
    /\ \A p \in Paths : files[p] = LeftAt(p)
    /\ EditsEnded =>
          /\ Len(attempted) = Len(operations)
          /\ (editRet = "Edit operations failed") <=> (\E i \in DOMAIN attempted : Failed(i))
          /\ (editRet = "applied") <=> (\A i \in DOMAIN attempted : ~Failed(i))

\* a call ended in which an operation failed and a later one changed its file
C21_Witness ==
    /\ EditsEnded
    /\ editRet = "Edit operations failed"
    /\ \E i, j \in DOMAIN attempted :
          /\ i < j
          /\ Failed(i)
          /\ ~Failed(j)
          /\ attempted[j].after # attempted[j].before
          /\ files[attempted[j].op.filePath] = attempted[j].after

\* the call applyEdits([Create(p, c), Delete(p)]) has ended
CreateThenDelete ==
    /\ EditsEnded
    /\ Len(operations) = 2
    /\ operations[1].type = "create"
    /\ operations[2].type = "delete"
    /\ operations[2].filePath = operations[1].filePath

CiDone == ciPc = "done"
EveryRunCompleted == \A i \in DOMAIN checkRuns : checkRuns[i].status = "completed"
EveryRunGreen ==
    \A i \in DOMAIN checkRuns : checkRuns[i].conclusion \in {"success", "neutral", "skipped"}

C24_ChecksTermination ==
    /\ [](ciPc \in {"poll", "sleep"} => elapsed <= 1200)
    /\ []((CiDone /\ ciResult.error = "Timed out") =>
             (elapsed = 1200 /\ ~ciResult.passed /\ Len(checkRuns) > 0 /\ ~EveryRunCompleted))
    /\ []((CiDone /\ noRunsYet /\ Len(checkRuns) = 0) => (ciResult.passed /\ elapsed = 120))
    /\ [](noRunsYet /\ ciPc \in {"poll", "sleep"} => elapsed <= 120)
    /\ (ciPc \in {"poll", "sleep"}) ~> CiDone

\* the call timed out at twenty minutes
C24_Witness ==
    /\ CiDone
    /\ ciResult = [passed |-> FALSE, error |-> "Timed out"]
    /\ elapsed = 1200

\* --------------------------------------------------------- storage claims
\* C27 (storage failures surface): a failed write of a GeneratedRecord is not
\* ignored: the step of callApi that records the exchange ends in a returned
\* message only if the record was written.
C27_StorageFailuresSurface ==
    [][(apiPc = "record" /\ apiPc' = "returned") => generated' # generated]_vars

\* the verdict in hand is the overall timeout of awaitChecks
TimedOutResult == ~result.passed /\ result.error.text = "Timed out"

\* C28 (CI timeout aborts): a 'Timed out' verdict of awaitChecks aborts the
\* iteration: the controller does not go on to store the CI failure and call
\* fixPatch for it, does not push a fix, and does not merge.
C28_CiTimeoutAborts ==
    TimedOutResult =>
        /\ itPc \notin {"storeCiFailed", "fixPatch", "commitFix", "mergePR"}
        /\ ~merged

\* ------------------------------------------------------------ cost claims
\* the price list of the vendor, in cents per million tokens
Rates(modelId) ==
    IF modelId = "claude-sonnet-4-6" THEN <<300, 1500, 375, 600, 30>>
    ELSE IF modelId = "claude-haiku-4-5" THEN <<100, 500, 125, 200, 10>>
    ELSE <<500, 2500, 625, 1000, 50>>

\* the interactive price of a record's exchange, from its token counts, in
\* cents per million tokens
ListPrice(r) ==
    LET rate == Rates(r.modelId)
    IN  (r.inputTokens - r.cacheReadTokens - r.cacheWrite5mTokens - r.cacheWrite1hTokens)
            * rate[1]
        + r.outputTokens * rate[2]
        + r.cacheWrite5mTokens * rate[3]
        + r.cacheWrite1hTokens * rate[4]
        + r.cacheReadTokens * rate[5]

\* C26 (cost composition): every record written by callApi has batch = true
\* and the cost computeCost gives for its model, the usage of the response and
\* its batch flag; that cost is half the interactive price of the tokens the
\* record counts; and for every model and usage the batch cost is exactly half
\* of the non-batch cost.  (computeCost counts in half cents per million
\* tokens, the list price is in cents.)
C26_CostComposition ==
    /\ \A i \in DOMAIN generated :
          /\ generated[i].batch = TRUE
          /\ generated[i].cost = ListPrice(generated[i])
    /\ apiPc = "returned" =>
          \A n \in RecordsOfCall :
              /\ generated[n].modelId = params.model
              /\ generated[n].cost
                    = computeCost(generated[n].modelId, entry.message.usage, generated[n].batch)
    /\ \A m \in {"claude-sonnet-4-6", "claude-haiku-4-5", "claude-opus-4-6", "unknown-model"} :
          \A k \in DOMAIN Usages :
              2 * computeCost(m, Usages[k], TRUE) = computeCost(m, Usages[k], FALSE)

\* a record of a response with cache reads and both kinds of cache writes
C26_Witness ==
    /\ apiPc = "returned"
    /\ \E n \in RecordsOfCall :
          /\ generated[n].batch
          /\ generated[n].cacheReadTokens = 3000
          /\ generated[n].cacheWrite1hTokens = 500
          /\ generated[n].modelId = "claude-haiku-4-5"
          /\ generated[n].cost = 5000 * 100 + 1000 * 500 + 1500 * 125 + 500 * 200 + 3000 * 10

\* ------------------------------------------------------------ poll claims
\* C30 (poll backoff): the first sleep is pollInterval; each later sleep, and
\* the delay set after a poll that found the batch not ended, is
\* min(maxPollInterval, previous delay * pollBackoff); with pollBackoff >= 1
\* and pollInterval <= maxPollInterval the delays never decrease and none
\* exceeds maxPollInterval; the results are read only once the create call or
\* a poll reported the status `ended`.
C30_PollBackoff ==
    LET cfg == batchConfig
        capped(d) == IF d * cfg.pollBackoff < cfg.maxPollInterval
                     THEN d * cfg.pollBackoff ELSE cfg.maxPollInterval
    IN  /\ Len(slept) > 0 => slept[1] = cfg.pollInterval
        /\ \A i \in 1..(Len(slept) - 1) : slept[i + 1] = capped(slept[i])
        /\ (apiPc = "sleep" /\ Len(slept) > 0) => delay = capped(slept[Len(slept)])
        /\ (apiPc = "sleep" /\ Len(slept) = 0) => delay = cfg.pollInterval
        /\ (cfg.pollBackoff >= 1 /\ cfg.pollInterval <= cfg.maxPollInterval) =>
              /\ \A i \in 1..(Len(slept) - 1) : slept[i] <= slept[i + 1]
              /\ \A i \in DOMAIN slept : slept[i] <= cfg.maxPollInterval
              /\ apiPc = "sleep" => delay <= cfg.maxPollInterval
              /\ (apiPc = "sleep" /\ Len(slept) > 0) => slept[Len(slept)] <= delay
        /\ resultsRead => status = "ended"
        /\ apiPc \in {"results", "record", "returned"} => status = "ended"

\* two polls found the batch in progress: the delays were 5 and 10, and the
\* next one is capped at 12
C30_Witness ==
    /\ apiPc = "sleep"
    /\ slept = <<5, 10>>
    /\ delay = 12
    /\ status # "ended"

\* ---------------------------------------------------------- request claims
\* the blocks of a request that carry a cache marker
MarkedBlocks(blocks) == { i \in DOMAIN blocks : "cache_control" \in DOMAIN blocks[i] }

\* the blocks that change from one iteration to the next, and the working
\* context
DynamicBlocks(blocks) ==
    { i \in DOMAIN blocks :
         blocks[i].text \in {"## Code Coverage (last CI run on main)", "Recent git log:",
                             "memoryContext", "## Unused Functions", "workingContext"} }

\* C29 (single cache marker): the system prompt of a request has exactly one
\* block with a cache marker, and the marker is ephemeral; for planner, builder
\* and fixer it is the codebase context, second after the phase's system
\* prompt; for reflect and memory it is the phase's system prompt, first; the
\* dynamic blocks and the working context all come after the marked block.
C29_SingleCacheMarker ==
    bpPc = "returned" =>
        LET blocks == built.system
            marked == MarkedBlocks(blocks)
        IN  /\ Cardinality(marked) = 1
            /\ \A i \in marked : blocks[i].cache_control = "ephemeral"
            /\ Len(blocks) >= 1
            /\ blocks[1].text \in {"SYSTEM_PLAN", "SYSTEM_BUILD", "SYSTEM_FIX",
                                   "SYSTEM_REFLECT", "SYSTEM_MEMORY"}
            /\ bpPhase \in {"planner", "builder", "fixer"} =>
                  (marked = {2} /\ blocks[2].text = "codebaseContext")
            /\ bpPhase \in {"reflect", "memory"} => marked = {1}
            /\ \A i \in DynamicBlocks(blocks) : \A j \in marked : j < i
            /\ DynamicBlocks(blocks) \cup marked \cup {1} = DOMAIN blocks

\* a planner request with every dynamic block and the working context
C29_Witness ==
    /\ bpPc = "returned"
    /\ bpPhase = "planner"
    /\ Len(built.system) = 7
    /\ built.system[7].text = "workingContext"
    /\ MarkedBlocks(built.system) = {2}

\* ------------------------------------------------------------- tool claims
\* C25 (tool errors are values): a handler returns a tool_result for the id of
\* the tool_use it handled; when the operation under it failed (applyEdits
\* threw, a helper rejected) the block has is_error = true and the error
\* message as content; when it succeeded the block has no is_error field.
C25_ToolErrorsAreValues ==
    toolUse # [name |-> "none", id |-> "none"] =>
        /\ toolResult.type = "tool_result"
        /\ toolResult.tool_use_id = toolUse.id
        /\ toolResult.content = toolOutcome.text
        /\ ~toolOutcome.ok <=> "is_error" \in DOMAIN toolResult
        /\ "is_error" \in DOMAIN toolResult => toolResult.is_error = TRUE
        /\ toolUse.name \in {"edit_file", "create_file", "delete_file"} =>
              /\ (editRet = "Edit operations failed") <=> "is_error" \in DOMAIN toolResult
              /\ (editRet = "applied") <=> toolOutcome.ok

\* edit_file on a file without the old string: the error came back as a value
C25_Witness ==
    /\ toolUse = [name |-> "edit_file", id |-> "id4"]
    /\ editRet = "Edit operations failed"
    /\ toolResult = [type |-> "tool_result", tool_use_id |-> "id4",
                     content |-> <<"Edit operations failed:", "oldString not found in file">>,
                     is_error |-> TRUE]

\* ---------------------------------------------------------- memory frame
\* the fields of a document that no operation writes after creation; createdAt
\* is the document's place in the store
Created(m) == [content |-> m.content, summaryLen |-> m.summaryLen,
               ideaContextLen |-> m.ideaContextLen]

\* the ids whose document the step changed
Changed == { id \in DOMAIN store : store'[id] # store[id] }

\* the returns of unpinMemory and updateIdeaStatus that report an error
ErrorReturns == {"No note found", "That memory is not a note.", "No memory found",
                 "is not an idea", "threw"}

\* C31 (memory frame): no operation of the Memory Service deletes a document or
\* changes the content, summary, ideaContext or createdAt of one, or pins one
\* again; unpinMemory changes only `pinned` of the document it was given,
\* updateIdeaStatus only `ideaStatus` (and `pinned`, cleared, when the status is
\* completed) of the document it was given; when either reports an error no
\* document is changed.
C31_MemoryFrame ==
    [][ /\ Len(store') >= Len(store)
        /\ \A id \in DOMAIN store :
              /\ Created(store'[id]) = Created(store[id])
              /\ store'[id].pinned => store[id].pinned
        /\ Changed # {} =>
              /\ memRet'.op \in {"unpinMemory", "updateIdeaStatus"}
              /\ Changed = {memRet'.id}
              /\ Len(store') = Len(store)
        /\ (memRet'.op = "unpinMemory" /\ memRet' # memRet) =>
              \A id \in Changed : store'[id] = [store[id] EXCEPT !.pinned = FALSE]
        /\ (memRet'.op = "updateIdeaStatus" /\ memRet' # memRet) =>
              \A id \in Changed :
                  /\ store'[id].ideaStatus \in {"attempted", "completed"}
                  /\ store'[id].pinned = (store[id].pinned /\ store'[id].ideaStatus # "completed")
        /\ (memRet'.op \in {"unpinMemory", "updateIdeaStatus"}
            /\ memRet'.ret \in ErrorReturns /\ memRet' # memRet) => store' = store
      ]_vars

\* updateIdeaStatus has marked a pinned idea completed beside another document
C31_Witness ==
    /\ Completed_
    /\ Len(store) = MaxItems
    /\ ~store[memRet.id].pinned
    /\ store[memRet.id].ideaContextLen > 0
    /\ \E id \in DOMAIN store : id # memRet.id /\ store[id].pinned

\* ----------------------------------------------------------- branch claims
\* the part of a branch name after the agent prefix
AfterPrefix(ref) == SubSeq(ref, Len(AgentPrefix) + 1, Len(ref))

\* C32 (agent branch names): a name createBranch returned starts with
\* 'seedgpt/', has at most 60 characters after the prefix, all of [a-z0-9-/];
\* findOpenAgentPRs returns every open pull request the agent opened from such
\* a branch and none whose head ref lacks the prefix.
C32_AgentBranchNames ==
    /\ brPc \in {"created", "opened"} =>
          /\ startsWith(branchRef, AgentPrefix)
          /\ Len(AfterPrefix(branchRef)) <= 60
          /\ \A i \in DOMAIN AfterPrefix(branchRef) : AfterPrefix(branchRef)[i] \in BranchChars
    /\ \A pr \in pulls : pr.by = "agent" =>
          /\ startsWith(pr.ref, AgentPrefix)
          /\ Len(AfterPrefix(pr.ref)) <= 60
          /\ pr \in findOpenAgentPRs(pulls)
    /\ agentPRs # NotListed =>
          /\ agentPRs \subseteq pulls
          /\ \A pr \in agentPRs : startsWith(pr.ref, AgentPrefix)
    /\ \A pr \in pulls : ~startsWith(pr.ref, AgentPrefix) => pr \notin findOpenAgentPRs(pulls)

\* a title longer than the cut, with capitals, blanks and punctuation, gave a
\* name of exactly 60 characters; its pull request was listed, two foreign
\* ones were not
C32_Witness ==
    /\ brPc = "opened"
    /\ Len(humanTitle) > 60
    /\ \E i \in DOMAIN humanTitle : humanTitle[i] = "!"
    /\ \E i \in DOMAIN humanTitle : humanTitle[i] = " "
    /\ Len(AfterPrefix(branchRef)) = 60
    /\ agentPRs = {[ref |-> branchRef, by |-> "agent"]}
    /\ Cardinality(pulls) = 3

\* ------------------------------------------------- commits, polls and PRs
\* the calls that returned edits to commit
ReturnedEdits == {Ev("createPatch", "edits"), Ev("fixPatch", "edits")}
FixesWithEdits == Count(trace, Ev("fixPatch", "edits"))

\* commitAndPush is called right after each call that returned edits and at no
\* other time, openPR once, right after the first commit, and each awaitChecks
\* has a commit of its own behind it
Alternation ==
    /\ Calls("openPR") <= 1
    /\ \A i \in 1..Len(trace) :
          /\ trace[i].op = "openPR" =>
                /\ i > 2
                /\ trace[i - 1] = Ev("commitAndPush", "ok")
                /\ trace[i - 2] = Ev("createPatch", "edits")
          /\ trace[i].op = "commitAndPush" => (i > 1 /\ trace[i - 1] \in ReturnedEdits)
          /\ (trace[i] \in ReturnedEdits /\ i < Len(trace)) => trace[i + 1].op = "commitAndPush"
          /\ (trace[i] \in ReturnedEdits /\ i = Len(trace)) => itPc \in {"commitAndPush", "commitFix"}
          /\ trace[i].op = "awaitChecks" =>
                \E j \in 1..(i - 1) :
                    /\ trace[j] = Ev("commitAndPush", "ok")
                    /\ \A k \in (j + 1)..(i - 1) : trace[k].op # "awaitChecks"

\* iterate is returning from an iteration whose createPatch returned edits
ReturnsAfterEdits == itPc = "return" /\ Ev("createPatch", "edits") \in Range(trace)

\* C33 as stated: k fixes that returned edits give k + 1 commits and attempts = k
C33_Original ==
    /\ Alternation
    /\ ReturnsAfterEdits =>
          /\ Calls("openPR") = 1
          /\ Calls("commitAndPush") = FixesWithEdits + 1
          /\ session.attempts = FixesWithEdits

\* C33 (commits and CI polls alternate): in an iteration whose createPatch
\* returned edits commitAndPush is called once before openPR and once after
\* each fixPatch that returned edits, and at no other time; openPR is called at
\* most once, right after the first commit; every awaitChecks follows a commit
\* made since the previous awaitChecks.  When iterate returns, openPR was
\* called once and k fixes with edits gave k + 1 commits; attempts counts every
\* fixPatch call, so it is k when each fixPatch returned edits and k + 1 when
\* the last one returned none or threw.
C33_CommitsAndPollsAlternate ==
    /\ Alternation
    /\ session # NoSession =>
          /\ session.attempts = Calls("fixPatch")
          /\ session.attempts \in {FixesWithEdits, FixesWithEdits + 1}
    /\ ReturnsAfterEdits =>
          /\ Calls("openPR") = 1
          /\ Calls("commitAndPush") = FixesWithEdits + 1
          /\ (session.attempts = FixesWithEdits) <=>
                (Range(trace) \cap {Ev("fixPatch", "empty"), Ev("fixPatch", "threw")} = {})

\* an iteration returns after one fix with edits and a second without: two
\* commits, two attempts
C33_Witness ==
    /\ ReturnsAfterEdits
    /\ FixesWithEdits = 1
    /\ Calls("commitAndPush") = 2
    /\ Calls("awaitChecks") = 2
    /\ session.attempts = 2
    /\ Ev("fixPatch", "empty") \in Range(trace)

\* the result of the last awaitChecks of the iteration
LastChecks ==
    trace[CHOOSE i \in 1..Len(trace) :
             /\ trace[i].op = "awaitChecks"
             /\ \A j \in (i + 1)..Len(trace) : trace[j].op # "awaitChecks"].res

\* C34 (PR resolved exactly once): when iterate returns normally from an
\* iteration whose openPR succeeded, one of mergePR and closePR has been called
\* on the PR, once, and the PR is merged or closed accordingly; mergePR was
\* called exactly when the last awaitChecks passed; closePR is never called in
\* an iteration whose checks passed, nor mergePR after checks that failed.
C34_PrResolvedOnce ==
    /\ (itPc = "return" /\ Ev("openPR", "ok") \in Range(trace)) =>
          /\ Calls("mergePR") + Calls("closePR") = 1
          /\ Called("awaitChecks")
          /\ Calls("mergePR") = 1 <=> LastChecks = "passed"
          /\ Calls("closePR") = 1 <=> LastChecks = "failed"
          /\ prState[prNumber] = IF LastChecks = "passed" THEN "merged" ELSE "closed"
    /\ \A i \in 1..Len(trace) :
          /\ trace[i].op = "closePR" =>
                /\ Ev("awaitChecks", "passed") \notin Range(trace)
                /\ ~Called("mergePR")
                /\ Ev("openPR", "ok") \in Range(SubSeq(trace, 1, i - 1))
          /\ trace[i].op = "mergePR" =>
                /\ \E j \in 1..(i - 1) :
                      /\ trace[j] = Ev("awaitChecks", "passed")
                      /\ \A k \in (j + 1)..(i - 1) : trace[k].op # "awaitChecks"
                /\ ~Called("closePR")
    /\ Calls("mergePR") <= 1
    /\ Calls("closePR") <= 1

\* iterate returns after a fix that CI rejected again: the PR was closed once
\* and never merged
C34_Witness ==
    /\ itPc = "return"
    /\ Ev("openPR", "ok") \in Range(trace)
    /\ Ev("fixPatch", "edits") \in Range(trace)
    /\ LastChecks = "failed"
    /\ Calls("closePR") = 1
    /\ prState[prNumber] = "closed"

\* C35 (no PR left open): when run() has exited, with or without an error, no
\* pull request opened during the run is still open.
C35_NoPrLeftOpen ==
    runPc = "exit" => \A n \in DOMAIN prState : prState[n] # "open"

\* ------------------------------------------------------- first-run message
\* getContext returned 'No memories yet. This is your first run.'
FirstRun(ctx) ==
    /\ ctx.sections = <<>>
    /\ ctx.len = Len("No memories yet. This is your first run.")

\* C36 as stated: the first-run message only for an empty store
C36_Original == (IsContext /\ FirstRun(memRet)) => store = <<>>

\* C36 (first-run message): getContext returns the first-run message exactly
\* when it produced no section: no pinned note is stored, there is no pinned
\* idea or the ideas do not fit the budget, and there is no unpinned non-idea
\* item or the newest one does not fit.  An empty store gives it; so does a
\* store of past memories under a budget too small for the newest, and a store
\* holding only unpinned ideas.  A store with a pinned note never gives it.
C36_FirstRunMessage ==
    IsContext =>
        /\ FirstRun(memRet) <=> memRet.sections = <<>>
        /\ FirstRun(memRet) <=>
              /\ NoteIds = {}
              /\ IdeaIds = {} \/ IdeasTokens > memRet.budget
              /\ \/ PastIds = {}
                 \/ memRet.budget <= 0
                 \/ 2 + PastLineTokens(NewestPast) > memRet.budget
        /\ store = <<>> => FirstRun(memRet)
        /\ NoteIds # {} => ~FirstRun(memRet)

\* the first-run message for a store of two past memories, the newer too long
\* for the budget and the older short enough
C36_Witness ==
    /\ IsContext
    /\ FirstRun(memRet)
    /\ memRet.budget > 0
    /\ Cardinality(PastIds) = 2
    /\ \E id \in PastIds : 2 + PastLineTokens(id) <= memRet.budget

Invalid(op) ==
    \/ "filePath" \notin DOMAIN op
    \/ op.filePath \in BlankPaths
    \/ op.type = "replace" /\ ("oldString" \notin DOMAIN op \/ op.oldString = Null)
    \/ op.type = "replace" /\ ("newString" \notin DOMAIN op \/ op.newString = Null)
    \/ op.type = "create" /\ ("content" \notin DOMAIN op \/ op.content = Null)

\* C38 (validation before any edit): when an operation of the list given to
\* applyEdits is invalid, the call throws a validation error without a turn of
\* the loop, and no file of the workspace changes; a list of valid operations
\* goes on to the loop.
C38_ValidationBeforeEdits ==
    /\ [](operations # <<>> =>
            IF \E i \in DOMAIN operations : Invalid(operations[i])
            THEN /\ editRet = "Edit operation validation failed"
                 /\ editPc = "idle"
                 /\ attempted = <<>>
                 /\ lastEdit = NoEdit
                 /\ Len(errors) >= 1
            ELSE editRet # "Edit operation validation failed")
    /\ [][(\E i \in DOMAIN operations' : Invalid(operations'[i])) => files' = files]_vars

\* a valid replace that would have changed the file, followed by a create
\* without content: the call threw and the file is as it was
C38_Witness ==
    /\ editRet = "Edit operation validation failed"
    /\ Len(operations) = 2
    /\ operations[1] = [type |-> "replace", filePath |-> "src/greet.ts",
                        oldString |-> <<"a">>, newString |-> <<"b">>]
    /\ operations[2] = [type |-> "create", filePath |-> "src/greet.ts"]
    /\ files["src/greet.ts"] = <<"a">>
    /\ errors = <<"content is required for create operations">>

\* ------------------------------------------------------- polling liveness
ApiDone == apiPc \in {"returned", "threw"}

\* C39 (batch polling liveness): callApi leaves the poll loop only when a poll
\* reported `ended` or a call to the vendor rejected, never because of the time
\* spent or the number of polls; after a status other than `ended` the next
\* step is another sleep and poll; once the vendor has reported `ended` the
\* call returns a message or throws; a batch that is `ended` when created has
\* its results read without a sleep or a poll.
C39_PollingLiveness ==
    /\ [](apiPc = "sleep" => (status \notin {"ended", "none"} /\ ~resultsRead))
    /\ []((apiPc = "sleep" /\ Len(slept) < MaxPolls) => ENABLED SleepAndPoll)
    /\ []((apiPc = "threw" /\ status \notin {"ended", "none"}) =>
             apiErr.message = "batches.retrieve failed")
    /\ []((ApiDone /\ status = "none") =>
             apiErr.message \in {"buildParams failed", "batches.create failed"})
    /\ [][(apiPc = "create" /\ status' = "ended") => (apiPc' = "results" /\ slept' = <<>>)]_vars
    /\ [][(apiPc = "sleep" /\ slept' # slept /\ apiPc' # "threw" /\ status' # "ended") =>
             (apiPc' = "sleep" /\ Len(slept') = Len(slept) + 1)]_vars
    /\ [][(apiPc = "sleep" /\ apiPc' # "sleep") =>
             \/ (status' = "ended" /\ apiPc' = "results")
             \/ (apiPc' = "threw" /\ apiErr'.message = "batches.retrieve failed")]_vars
    /\ [][(apiPc \in {"results", "record"}) => (slept' = slept)]_vars
    /\ (status = "ended") ~> ApiDone
    /\ (apiPc = "create") ~> (apiPc \in {"sleep", "results", "threw"})

\* a batch that was `ended` when created: the message came back with no sleep
C39_Witness ==
    /\ apiPc = "returned"
    /\ slept = <<>>
    /\ status = "ended"
    /\ resultsRead
    /\ apiRet.content = <<TextBlock>>

====
